---- MODULE Spec2Model ----
(***************************************************************************)
(* Placeholder detection, fill tracking and rendering of the Lexsy         *)
(* document assistant.  Text is modelled as strings, character by          *)
(* character; a Python span (s, e) is 0-based with exclusive end, string   *)
(* indices here are 1-based.                                               *)
(***************************************************************************)
EXTENDS Integers, Sequences, FiniteSets, TLC

(***************************************************************************)
(* String primitives (Python str / re building blocks)                     *)
(***************************************************************************)
Min(S) == CHOOSE x \in S : \A y \in S : x <= y

Max(S) == CHOOSE x \in S : \A y \in S : x >= y

\* a local variable: Let(e, LAMBDA x : body) is body with x bound to the value of e
Let(v, F(_)) == F(v)

Char(s, i) == IF i >= 1 /\ i <= Len(s) THEN SubSeq(s, i, i) ELSE ""

CharsOf(s) == {SubSeq(s, i, i) : i \in 1..Len(s)}

UpperLetters == "ABCDEFGHIJKLMNOPQRSTUVWXYZ"

LowerLetters == "abcdefghijklmnopqrstuvwxyz"

DigitChars == "0123456789"

UpperSet == CharsOf(UpperLetters)

LowerSet == CharsOf(LowerLetters)

DigitSet == CharsOf(DigitChars)

IsUpper(c) == c \in UpperSet

IsLower(c) == c \in LowerSet

IsLetter(c) == c \in UpperSet \/ c \in LowerSet

IsDigit(c) == c \in DigitSet

IsSpace(c) == c \in {" ", "\t", "\n"}

IsWord(c) == IsLetter(c) \/ IsDigit(c) \/ c = "_"

IsLetterOrSpace(c) == IsLetter(c) \/ IsSpace(c)

IsLetterUnderscoreSpace(c) == IsLetter(c) \/ IsSpace(c) \/ c = "_"

LowerMap == [c \in UpperSet |-> Char(LowerLetters, CHOOSE i \in 1..26 : Char(UpperLetters, i) = c)]

UpperMap == [c \in LowerSet |-> Char(UpperLetters, CHOOSE i \in 1..26 : Char(LowerLetters, i) = c)]

LowerChar(c) == IF c \in UpperSet THEN LowerMap[c] ELSE c

UpperChar(c) == IF c \in LowerSet THEN UpperMap[c] ELSE c

\* ''.join(pieces[a..b]), by halving so that evaluation depth stays logarithmic
RECURSIVE JoinRange(_, _, _)
JoinRange(pieces, a, b) ==
    IF a > b THEN ""
    ELSE IF a = b THEN pieces[a]
    ELSE JoinRange(pieces, a, (a + b) \div 2) \o JoinRange(pieces, ((a + b) \div 2) + 1, b)

Join(pieces) == JoinRange(pieces, 1, Len(pieces))

lower(s) == Join([i \in 1..Len(s) |-> LowerChar(Char(s, i))])

upper(s) == Join([i \in 1..Len(s) |-> UpperChar(Char(s, i))])

\* str.isupper(): at least one cased character and no lowercase one
isupper(s) == (\E i \in 1..Len(s) : IsUpper(Char(s, i))) /\ (\A i \in 1..Len(s) : ~IsLower(Char(s, i)))

\* str.title(): a letter is upper-cased when the previous character is not a letter
title(s) ==
    Join([i \in 1..Len(s) |-> IF IsLetter(Char(s, i - 1)) THEN LowerChar(Char(s, i)) ELSE UpperChar(Char(s, i))])

startswith(s, p) == Len(p) <= Len(s) /\ SubSeq(s, 1, Len(p)) = p

MatchesAt(s, i, sub) == i >= 1 /\ i + Len(sub) - 1 <= Len(s) /\ SubSeq(s, i, i + Len(sub) - 1) = sub

\* str.find from a 1-based position; 0 when absent
FindFrom(s, sub, from) ==
    Let({i \in from..(Len(s) - Len(sub) + 1) : MatchesAt(s, i, sub)}, LAMBDA S :
        IF S = {} THEN 0 ELSE Min(S))

\* the Python test  sub in s
Contains(s, sub) == FindFrom(s, sub, 1) # 0

\* str.replace(old, new, 1)
ReplaceFirst(s, old, new) ==
    Let(FindFrom(s, old, 1), LAMBDA i :
        IF i = 0 \/ old = "" THEN s
        ELSE SubSeq(s, 1, i - 1) \o new \o SubSeq(s, i + Len(old), Len(s)))

\* str.replace(old, new): every non-overlapping occurrence, left to right
RECURSIVE ReplaceAll(_, _, _)
ReplaceAll(s, old, new) ==
    Let(FindFrom(s, old, 1), LAMBDA i :
        IF i = 0 \/ old = "" THEN s
        ELSE SubSeq(s, 1, i - 1) \o new \o ReplaceAll(SubSeq(s, i + Len(old), Len(s)), old, new))

\* first index >= from holding character c; 0 when absent
FirstAt(t, from, c) ==
    Let({j \in from..Len(t) : Char(t, j) = c}, LAMBDA S :
        IF S = {} THEN 0 ELSE Min(S))

\* last index of the maximal run of P-characters starting at from (from-1 when empty)
RunEnd(t, from, P(_)) ==
    Let({j \in from..Len(t) : ~P(Char(t, j))}, LAMBDA bad :
        IF bad = {} THEN Len(t) ELSE Min(bad) - 1)

\* first index of the maximal run of P-characters ending at to (to+1 when empty)
RunStart(t, to, P(_)) ==
    Let({j \in 1..to : ~P(Char(t, j))}, LAMBDA bad :
        IF bad = {} THEN 1 ELSE Max(bad) + 1)

\* str.strip()
strip(s) ==
    Let({i \in 1..Len(s) : ~IsSpace(Char(s, i))}, LAMBDA keep :
        IF keep = {} THEN "" ELSE SubSeq(s, Min(keep), Max(keep)))

\* str.strip('_')
strip_underscores(s) ==
    Let({i \in 1..Len(s) : Char(s, i) # "_"}, LAMBDA keep :
        IF keep = {} THEN "" ELSE SubSeq(s, Min(keep), Max(keep)))

\* ' '.join(s.split()): whitespace runs collapse to one blank, ends trimmed
CollapseWs(s) ==
    Join([i \in 1..Len(s) |-> IF ~IsSpace(Char(s, i)) THEN Char(s, i)
                              ELSE IF IsSpace(Char(s, i - 1)) /\ i > 1 THEN "" ELSE " "])

normalize_whitespace(s) == CollapseWs(strip(s))

\* str(int) for naturals
RECURSIVE IntToStr(_)
IntToStr(n) == IF n < 10 THEN Char(DigitChars, n + 1) ELSE IntToStr(n \div 10) \o Char(DigitChars, (n % 10) + 1)

(***************************************************************************)
(* PatternScanner: the ordered pattern list and one matcher per syntax     *)
(***************************************************************************)
patterns == << "dollar_bracket", "square_bracket", "double_curly", "underscore",
               "angle_bracket", "insert_style", "blank_with_description", "field_with_blank" >>

NoMatch == [ok |-> FALSE, s |-> 0, e |-> 0, g |-> ""]

\* a match covering indices i..j with capture group g: span() = (i-1, j)
Match(i, j, g) == [ok |-> TRUE, s |-> i - 1, e |-> j, g |-> g]

\* \$\[([^\]]*)\]
dollar_bracket(t, i) ==
    IF Char(t, i) = "$" /\ Char(t, i + 1) = "["
    THEN Let(FirstAt(t, i + 2, "]"), LAMBDA j :
             IF j = 0 THEN NoMatch ELSE Match(i, j, SubSeq(t, i + 2, j - 1)))
    ELSE NoMatch

\* \[([^\]]+)\]
square_bracket(t, i) ==
    IF Char(t, i) = "["
    THEN Let(FirstAt(t, i + 1, "]"), LAMBDA j :
             IF j = 0 \/ j < i + 2 THEN NoMatch ELSE Match(i, j, SubSeq(t, i + 1, j - 1)))
    ELSE NoMatch

\* \{\{([^}]+)\}\}
double_curly(t, i) ==
    IF Char(t, i) = "{" /\ Char(t, i + 1) = "{"
    THEN Let(FirstAt(t, i + 2, "}"), LAMBDA j :
             IF j = 0 \/ j < i + 3 \/ Char(t, j + 1) # "}" THEN NoMatch
             ELSE Match(i, j + 1, SubSeq(t, i + 2, j - 1)))
    ELSE NoMatch

\* __([A-Za-z][A-Za-z_\s]*[A-Za-z])__   (greedy star, longest group that still ends in __)
underscore(t, i) ==
    IF Char(t, i) = "_" /\ Char(t, i + 1) = "_" /\ IsLetter(Char(t, i + 2))
    THEN Let(RunEnd(t, i + 3, IsLetterUnderscoreSpace), LAMBDA r :
         Let({k \in (i + 3)..r : IsLetter(Char(t, k)) /\ Char(t, k + 1) = "_" /\ Char(t, k + 2) = "_"}, LAMBDA K :
             IF K = {} THEN NoMatch ELSE Match(i, Max(K) + 2, SubSeq(t, i + 2, Max(K)))))
    ELSE NoMatch

\* <([A-Z_\s]+)>   under re.IGNORECASE
angle_bracket(t, i) ==
    IF Char(t, i) = "<"
    THEN Let(RunEnd(t, i + 1, IsLetterUnderscoreSpace), LAMBDA r :
             IF r < i + 1 \/ Char(t, r + 1) # ">" THEN NoMatch ELSE Match(i, r + 1, SubSeq(t, i + 1, r)))
    ELSE NoMatch

\* \[INSERT ([^]]+)\]   under re.IGNORECASE
insert_style(t, i) ==
    IF Char(t, i) = "[" /\ lower(SubSeq(t, i + 1, Min({Len(t), i + 7}))) = "insert "
    THEN Let(FirstAt(t, i + 8, "]"), LAMBDA j :
             IF j = 0 \/ j < i + 9 THEN NoMatch ELSE Match(i, j, SubSeq(t, i + 8, j - 1)))
    ELSE NoMatch

\* _{3,}\s*\(([^)]+)\)
blank_with_description(t, i) ==
    IF Char(t, i) = "_"
    THEN Let(RunEnd(t, i, LAMBDA c : c = "_"), LAMBDA u :
         Let(RunEnd(t, u + 1, IsSpace), LAMBDA w :
         Let(FirstAt(t, w + 2, ")"), LAMBDA j :
             IF u - i + 1 < 3 \/ Char(t, w + 1) # "(" \/ j = 0 \/ j < w + 3 THEN NoMatch
             ELSE Match(i, j, SubSeq(t, w + 2, j - 1)))))
    ELSE NoMatch

\* ([A-Za-z\s]+):\s*_{3,}
field_with_blank(t, i) ==
    IF IsLetterOrSpace(Char(t, i)) /\ Char(t, i) # ""
    THEN Let(RunEnd(t, i, IsLetterOrSpace), LAMBDA r :
         Let(RunEnd(t, r + 2, IsSpace), LAMBDA w :
         Let(RunEnd(t, w + 1, LAMBDA c : c = "_"), LAMBDA u :
             IF Char(t, r + 1) # ":" \/ u - w < 3 THEN NoMatch
             ELSE Match(i, u, SubSeq(t, i, r)))))
    ELSE NoMatch

MatchAt(pattern_type, t, i) ==
    CASE pattern_type = "dollar_bracket" -> dollar_bracket(t, i)
      [] pattern_type = "square_bracket" -> square_bracket(t, i)
      [] pattern_type = "double_curly" -> double_curly(t, i)
      [] pattern_type = "underscore" -> underscore(t, i)
      [] pattern_type = "angle_bracket" -> angle_bracket(t, i)
      [] pattern_type = "insert_style" -> insert_style(t, i)
      [] pattern_type = "blank_with_description" -> blank_with_description(t, i)
      [] pattern_type = "field_with_blank" -> field_with_blank(t, i)

\* re.finditer: leftmost matches, resuming at the end of each match
RECURSIVE finditer(_, _, _)
finditer(pattern_type, t, pos) ==
    Let({i \in pos..Len(t) : MatchAt(pattern_type, t, i).ok}, LAMBDA starts :
        IF starts = {} THEN << >>
        ELSE Let(MatchAt(pattern_type, t, Min(starts)), LAMBDA m :
                 << m >> \o finditer(pattern_type, t, m.e + 1)))

(***************************************************************************)
(* Name cleaning, normalized keys, type classification                     *)
(***************************************************************************)
prefixes_to_remove == << "Insert", "Enter", "Add", "Input", "Type", "Provide", "Fill" >>

\* the loop over prefixes_to_remove from the k-th on: a prefix that does not apply
\* leaves the name as it is, so the loop resumes at the next prefix that applies
HasPrefix(name, prefix) == startswith(name, prefix \o " ") \/ startswith(name, upper(prefix) \o " ")

RECURSIVE RemovePrefixes(_, _)
RemovePrefixes(name, k) ==
    Let({j \in k..Len(prefixes_to_remove) : HasPrefix(name, prefixes_to_remove[j])}, LAMBDA applies :
        IF applies = {} THEN name
        ELSE RemovePrefixes(SubSeq(name, Len(prefixes_to_remove[Min(applies)]) + 2, Len(name)), Min(applies) + 1))

replacements == << <<"Co.", "Company">>, <<"Corp.", "Corporation">>, <<"Inc.", "Incorporated">>,
                   <<"Addr", "Address">>, <<"Amt", "Amount">>, <<"Pct", "Percentage">>,
                   <<"No.", "Number">>, <<"Tel", "Telephone">>, <<"Qty", "Quantity">> >>

\* the regex assertion \b between index p and p+1
WordBoundary(s, p) == IsWord(Char(s, p)) # IsWord(Char(s, p + 1))

WordHits(s, old, pos) ==
    {i \in pos..Len(s) : MatchesAt(s, i, old) /\ WordBoundary(s, i - 1) /\ WordBoundary(s, i + Len(old) - 1)}

\* re.sub(r'\b' + re.escape(old) + r'\b', new, s)
RECURSIVE ReSubWord(_, _, _, _)
ReSubWord(s, old, new, pos) ==
    Let(WordHits(s, old, pos), LAMBDA hits :
        IF hits = {} THEN SubSeq(s, pos, Len(s))
        ELSE SubSeq(s, pos, Min(hits) - 1) \o new \o ReSubWord(s, old, new, Min(hits) + Len(old)))

\* the loop over replacements from the k-th on, resuming at the next one that matches
RECURSIVE ApplyReplacements(_, _)
ApplyReplacements(name, k) ==
    Let({j \in k..Len(replacements) : WordHits(name, replacements[j][1], 1) # {}}, LAMBDA applies :
        IF applies = {} THEN name
        ELSE ApplyReplacements(ReSubWord(name, replacements[Min(applies)][1], replacements[Min(applies)][2], 1),
                               Min(applies) + 1))

_clean_placeholder_name(raw) ==
    Let(normalize_whitespace(raw), LAMBDA joined :
    Let(IF isupper(joined) /\ Len(joined) > 2 THEN title(joined) ELSE joined, LAMBDA cased :
        IF joined = "" THEN "" ELSE strip(ApplyReplacements(RemovePrefixes(cased, 1), 1))))

\* re.sub(r'[^a-z0-9]+', '_', key)
CollapseNonAlnum(s) ==
    LET IsAlnum(c) == IsLower(c) \/ IsDigit(c)
    IN  Join([i \in 1..Len(s) |-> IF IsAlnum(Char(s, i)) THEN Char(s, i)
                                  ELSE IF i > 1 /\ ~IsAlnum(Char(s, i - 1)) THEN "" ELSE "_"])

key_mappings(key) ==
    CASE key = "company_name" -> "company_name"
      [] key = "company" -> "company_name"
      [] key = "investor_name" -> "investor_name"
      [] key = "investor" -> "investor_name"
      [] key = "purchase_amount" -> "purchase_amount"
      [] key = "date_of_safe" -> "date_of_safe"
      [] key = "safe_date" -> "date_of_safe"
      [] key = "state_of_incorporation" -> "state_of_incorporation"
      [] key = "valuation_cap" -> "valuation_cap"
      [] key = "valuation_cap_amount" -> "valuation_cap"
      [] key = "post_money_valuation_cap" -> "valuation_cap"
      [] key = "postmoney_valuation_cap" -> "valuation_cap"
      [] key = "governing_law_jurisdiction" -> "governing_law_jurisdiction"
      [] key = "governing_law" -> "governing_law_jurisdiction"
      [] key = "name" -> "signatory_name"
      [] key = "title" -> "signatory_title"
      [] OTHER -> key

_generate_normalized_key(name) ==
    key_mappings(strip_underscores(CollapseNonAlnum(strip(lower(name)))))

type_indicators ==
    << [type |-> "company", indicators |-> {"company", "corporation", "entity", "business", "firm", "organization", "llc", "inc", "corp"}],
       [type |-> "person", indicators |-> {"name", "person", "individual", "party", "signatory", "representative", "employee"}],
       [type |-> "date", indicators |-> {"date", "day", "month", "year", "effective", "expiration", "deadline", "due", "termination"}],
       [type |-> "amount", indicators |-> {"amount", "price", "fee", "cost", "payment", "sum", "total", "valuation", "cap", "$", "dollar", "usd"}],
       [type |-> "percentage", indicators |-> {"percentage", "percent", "rate", "discount", "interest", "commission", "%"}],
       [type |-> "address", indicators |-> {"address", "location", "street", "city", "state", "zip", "country", "jurisdiction"}],
       [type |-> "contact", indicators |-> {"email", "phone", "telephone", "fax", "contact", "mobile", "tel"}],
       [type |-> "number", indicators |-> {"number", "count", "quantity", "shares", "units", "#", "no."}],
       [type |-> "signature", indicators |-> {"signature", "signed", "authorized", "executed", "acknowledged"}],
       [type |-> "title", indicators |-> {"title", "position", "role", "designation", "office"}] >>

RECURSIVE IndicatorType(_, _)
IndicatorType(name_lower, k) ==
    IF k > Len(type_indicators) THEN "text"
    ELSE IF (\E indicator \in type_indicators[k].indicators : Contains(name_lower, indicator))
            /\ ~(type_indicators[k].type = "company"
                 /\ Contains(name_lower, "state") /\ Contains(name_lower, "incorporation"))
         THEN type_indicators[k].type
         ELSE IndicatorType(name_lower, k + 1)

\* _identify_placeholder_type without its month-and-duration case: the fault
\* that C18 must detect
_identify_placeholder_type_without_months(name) ==
    Let(lower(name), LAMBDA name_lower :
        IF Contains(name_lower, "address") THEN "address"
        ELSE IF Contains(name_lower, "state of incorporation") THEN "address"
        ELSE IF Contains(name_lower, "governing law") \/ Contains(name_lower, "governing law jurisdiction") THEN "address"
        ELSE IF Contains(name_lower, "valuation cap") THEN "amount"
        ELSE IF Contains(name_lower, "discount rate") THEN "percentage"
        ELSE IF Contains(name_lower, "purchase amount") THEN "amount"
        ELSE IF Contains(name_lower, "date of safe") \/ Contains(name_lower, "safe date") THEN "date"
        ELSE IF Contains(name_lower, "investor name") THEN "person"
        ELSE IF Contains(name_lower, "company name") THEN "company"
        ELSE IndicatorType(name_lower, 1))

_identify_placeholder_type(name) ==
    Let(lower(name), LAMBDA name_lower :
        IF Contains(name_lower, "address") THEN "address"
        ELSE IF Contains(name_lower, "state of incorporation") THEN "address"
        ELSE IF Contains(name_lower, "governing law") \/ Contains(name_lower, "governing law jurisdiction") THEN "address"
        ELSE IF Contains(name_lower, "valuation cap") THEN "amount"
        ELSE IF Contains(name_lower, "discount rate") THEN "percentage"
        ELSE IF Contains(name_lower, "purchase amount") THEN "amount"
        ELSE IF Contains(name_lower, "date of safe") \/ Contains(name_lower, "safe date") THEN "date"
        ELSE IF Contains(name_lower, "investor name") THEN "person"
        ELSE IF Contains(name_lower, "company name") THEN "company"
        ELSE IF (Contains(name_lower, "term") /\ Contains(name_lower, "month"))
                \/ Contains(name_lower, "number of month")
                \/ (Contains(name_lower, "month")
                    /\ \E word \in {"term", "number", "count", "quantity", "duration", "period"} : Contains(name_lower, word))
             THEN "number"
        ELSE IndicatorType(name_lower, 1))

\* text window of context_size characters on each side of the span (s, e)
_extract_context(text, s, e, context_size) ==
    LET context_start == IF s - context_size > 0 THEN s - context_size ELSE 0
        context_end == IF e + context_size < Len(text) THEN e + context_size ELSE Len(text)
    IN  (IF context_start > 0 THEN "..." ELSE "")
        \o SubSeq(text, context_start + 1, context_end)
        \o (IF context_end < Len(text) THEN "..." ELSE "")

(***************************************************************************)
(* Context-based name inference for blank dollar placeholders             *)
(***************************************************************************)
\* ' '.join(word.capitalize() for word in s.split())
CapWords(s) ==
    Let(normalize_whitespace(s), LAMBDA n :
        Join([i \in 1..Len(n) |-> IF i = 1 \/ Char(n, i - 1) = " " THEN UpperChar(Char(n, i)) ELSE LowerChar(Char(n, i))]))

\* re.sub(r'^(the|a|an)\s+', '', s, flags=re.IGNORECASE)
RemoveArticle(s) ==
    LET Cut(art) == IF lower(SubSeq(s, 1, Min({Len(s), Len(art)}))) = art /\ IsSpace(Char(s, Len(art) + 1)) /\ Char(s, Len(art) + 1) # ""
                    THEN RunEnd(s, Len(art) + 1, IsSpace) ELSE 0
    IN  IF Cut("the") > 0 THEN SubSeq(s, Cut("the") + 1, Len(s))
        ELSE IF Cut("a") > 0 THEN SubSeq(s, Cut("a") + 1, Len(s))
        ELSE IF Cut("an") > 0 THEN SubSeq(s, Cut("an") + 1, Len(s))
        ELSE s

\* leftmost start of [A-Z][a-z]+(?:\s+[A-Z][a-z]+)* (IGNORECASE) ending exactly at index e; 0 if none
RECURSIVE ChainExtend(_, _)
ChainExtend(t, a) ==
    Let(RunStart(t, a - 1, IsSpace), LAMBDA w :
    Let(RunStart(t, w - 1, IsLetter), LAMBDA b :
        IF w <= a - 1 /\ (w - 1) - b + 1 >= 2 THEN ChainExtend(t, b) ELSE a))

ChainStart(t, e) ==
    Let(RunStart(t, e, IsLetter), LAMBDA a :
        IF e < 1 \/ e - a + 1 < 2 THEN 0 ELSE ChainExtend(t, a))

\* the six "field name before the blank" searches, each returning the captured group or ""
\* (a failed search and an empty capture are both rejected by the length test that follows)
BeforePattern(k, t) ==
    LET n == Len(t)
        last == Char(t, n)
        \* index of the last non-blank character before position q
        Before(q) == RunStart(t, q - 1, IsSpace) - 1
        ChainGroup(e) == Let(ChainStart(t, e), LAMBDA a : IF a = 0 THEN "" ELSE SubSeq(t, a, e))
    IN  CASE k = 1 ->
               IF n >= 3 /\ lower(SubSeq(t, n - 1, n)) = "is" /\ IsSpace(Char(t, n - 2))
               THEN ChainGroup(Before(n - 1)) ELSE ""
          [] k = 2 ->
               IF last = ":" \/ last = "-" THEN ChainGroup(Before(n)) ELSE ""
          [] k = 3 ->
               IF last = ":"
               THEN Let({i \in 1..(n - 4) : lower(SubSeq(t, i, i + 1)) = "by" /\ IsSpace(Char(t, i + 2))
                                             /\ \A j \in (i + 3)..(n - 1) : IsLetterOrSpace(Char(t, j))}, LAMBDA I :
                        IF I = {} THEN ""
                        ELSE Let(RunEnd(t, Min(I) + 2, IsSpace), LAMBDA w :
                                 IF w < n - 1 THEN SubSeq(t, w + 1, n - 1) ELSE SubSeq(t, n - 1, n - 1)))
               ELSE ""
          [] k = 4 ->
               IF n >= 2 /\ last = ":" /\ \A j \in 1..(n - 1) : IsLetterOrSpace(Char(t, j))
               THEN SubSeq(t, 1, n - 1) ELSE ""
          [] k = 5 ->
               Let(IF n >= 3 /\ lower(SubSeq(t, n - 2, n)) = "for" THEN n - 2
                   ELSE IF n >= 2 /\ lower(SubSeq(t, n - 1, n)) = "of" THEN n - 1 ELSE 0, LAMBDA w :
               Let(RunStart(t, w - 1, IsSpace), LAMBDA a :
               Let({i \in 1..(w - 5) : IsLetter(Char(t, i))
                                       /\ (\A j \in (i + 1)..(w - 1) : IsLetterOrSpace(Char(t, j)))
                                       /\ Max({a - 1, i + 3}) <= Min({w - 2, i + 30})}, LAMBDA I :
                   IF w = 0 \/ ~IsSpace(Char(t, w - 1)) \/ Char(t, w - 1) = "" \/ I = {} THEN ""
                   ELSE SubSeq(t, Min(I), Min({w - 2, Min(I) + 30})))))
          [] k = 6 ->
               IF last = "(" THEN ChainGroup(Before(n)) ELSE ""

\* first pattern (in order) whose cleaned capture is long enough and not a stop word
InferredBy(before_text, k) ==
    Let(BeforePattern(k, before_text), LAMBDA captured :
        IF captured = "" THEN "" ELSE CapWords(RemoveArticle(strip(captured))))

InferFromBefore(before_text) ==
    Let([k \in 1..6 |-> InferredBy(before_text, k)], LAMBDA inferred :
    Let({k \in 1..6 : Len(inferred[k]) >= 3
                      /\ lower(inferred[k]) \notin {"the", "and", "for", "with", "this", "that"}}, LAMBDA accepted :
        IF accepted = {} THEN "" ELSE inferred[Min(accepted)]))

\* re.sub(r'^["\']+|["\']+$', '', hint)
StripQuotes(s) ==
    Let({i \in 1..Len(s) : Char(s, i) \notin {"\"", "'"}}, LAMBDA keep :
        IF keep = {} THEN "" ELSE SubSeq(s, Min(keep), Max(keep)))

_infer_placeholder_name(placeholder_match, context) ==
    Let(lower(context), LAMBDA context_lower :
    Let(FindFrom(context, placeholder_match, 1), LAMBDA at :
    Let(IF at # 0 THEN SubSeq(context, 1, at - 1) ELSE context, LAMBDA before_raw :
    Let(strip(SubSeq(before_raw, Max({1, Len(before_raw) - 99}), Len(before_raw))), LAMBDA before_text :
    Let(IF at # 0 THEN SubSeq(context, at + Len(placeholder_match), Len(context)) ELSE "", LAMBDA rest :
    Let(FindFrom(rest, placeholder_match, 1), LAMBDA nxt :
    Let(IF nxt # 0 THEN SubSeq(rest, 1, nxt - 1) ELSE rest, LAMBDA after_raw :
    Let(strip(SubSeq(after_raw, 1, Min({50, Len(after_raw)}))), LAMBDA after_text :
    Let(FirstAt(after_text, 2, ")"), LAMBDA close :
    Let(IF Char(after_text, 1) = "(" /\ close >= 3 THEN strip(SubSeq(after_text, 2, close - 1)) ELSE "", LAMBDA hint :
    Let(Char(after_text, 1) = "(" /\ close >= 3 /\ Len(hint) >= 3 /\ Len(hint) <= 40, LAMBDA has_hint :
    Let(lower(SubSeq(before_text, Max({1, Len(before_text) - 39}), Len(before_text))), LAMBDA tail40 :
    Let(lower(SubSeq(before_text, Max({1, Len(before_text) - 19}), Len(before_text))), LAMBDA tail20 :
    Let(InferFromBefore(before_text), LAMBDA from_before :
        \* the strategies in the order the code tries them: <<applies, name>>
    Let(    << << Contains(context_lower, "post-money valuation cap") \/ Contains(context_lower, "post money valuation cap")
                  \/ Contains(context_lower, "valuation cap"), "Post-Money Valuation Cap" >>,
               << Contains(context_lower, "post money"), "Post-Money Valuation Cap" >>,
               << Contains(context_lower, "purchase amount") \/ Contains(context_lower, "payment by")
                  \/ Contains(context_lower, "exchange for"), "Purchase Amount" >>,
               << from_before # "", from_before >>,
               << has_hint, CapWords(StripQuotes(hint)) >>,
               << startswith(placeholder_match, "$"), "Purchase Amount" >>,
               << Contains(tail40, "company"), "Company Information" >>,
               << Contains(tail40, "investor"), "Investor Information" >>,
               << Contains(tail20, "name"), "Name" >>,
               << Contains(tail20, "title"), "Title/Position" >>,
               << Contains(tail20, "date"), "Date" >>,
               << Len(placeholder_match) > 15, "Required Information" >>,
               << startswith(placeholder_match, "_"), "Required Field" >>,
               << TRUE, "Value" >> >>, LAMBDA strategies :
        strategies[Min({k \in 1..Len(strategies) : strategies[k][1]})][2])))))))))))))))

(***************************************************************************)
(* Candidate extraction for one unit of text                              *)
(***************************************************************************)
\* concatenation of the sequences seqs[a..b]
RECURSIVE FlattenRange(_, _, _)
FlattenRange(seqs, a, b) ==
    IF a > b THEN << >>
    ELSE IF a = b THEN seqs[a]
    ELSE FlattenRange(seqs, a, (a + b) \div 2) \o FlattenRange(seqs, ((a + b) \div 2) + 1, b)

Flatten(seqs) == FlattenRange(seqs, 1, Len(seqs))

\* str(location): paragraph locations are integers, table locations are "t-r-c" strings
LocStr(location_type, location) == IF location_type = "paragraph" THEN IntToStr(location) ELSE location

\* the name a match yields before cleaning
placeholder_text(pattern_type, text, m) ==
    IF pattern_type = "dollar_bracket"
    THEN Let(strip(m.g), LAMBDA captured_text :
             IF captured_text # "" /\ (\E i \in 1..Len(captured_text) : Char(captured_text, i) # "_")
             THEN captured_text
             ELSE _infer_placeholder_name(SubSeq(text, m.s + 1, m.e), _extract_context(text, m.s, m.e, 200)))
    ELSE strip(m.g)

\* the candidate record of one match (its id is assigned by the caller), or << >> when skipped
Candidate(pattern_type, text, m, location, location_type) ==
    Let(placeholder_text(pattern_type, text, m), LAMBDA raw_name :
    Let(IF raw_name = "" THEN "" ELSE _clean_placeholder_name(raw_name), LAMBDA cleaned_name :
    Let(_generate_normalized_key(cleaned_name), LAMBDA normalized_key :
        IF cleaned_name = "" \/ Len(cleaned_name) < 2 THEN << >>
        ELSE IF lower(cleaned_name) \in {"the", "this", "that", "section", "see"} THEN << >>
        ELSE << [ id |-> "",
                  key |-> normalized_key \o "_" \o LocStr(location_type, location),
                  normalized_key |-> normalized_key,
                  name |-> cleaned_name,
                  original |-> SubSeq(text, m.s + 1, m.e),
                  type |-> _identify_placeholder_type(cleaned_name),
                  pattern_type |-> pattern_type,
                  location |-> location,
                  location_type |-> location_type,
                  position |-> << m.s, m.e >>,
                  context |-> _extract_context(text, m.s, m.e, 50) ] >>)))

\* every pattern in order, every match of it in order.  Occurrence ids are fresh
\* tokens: the k-th placeholder created in the u-th scanned unit gets ph_<u>_<k>
_find_placeholders_in_text(text, location, location_type, u) ==
    Let([k \in 1..Len(patterns) |->
           Let(finditer(patterns[k], text, 1), LAMBDA ms :
               Flatten([j \in 1..Len(ms) |-> Candidate(patterns[k], text, ms[j], location, location_type)]))],
        LAMBDA per_pattern :
    Let(Flatten(per_pattern), LAMBDA found :
        [k \in 1..Len(found) |-> [found[k] EXCEPT !.id = "ph_" \o IntToStr(u) \o "_" \o IntToStr(k)]]))

(***************************************************************************)
(* ContextDisambiguator                                                    *)
(***************************************************************************)
ProximityThreshold == 10

\* signature without the location: the fault that C9 must detect
signature_without_location(p) ==
    Let(lower(p.context), LAMBDA context_lower :
        IF startswith(p.original, "$[") \/ (startswith(p.original, "[") /\ Len(p.original) > 10)
        THEN IF startswith(p.original, "$[") /\ (Contains(p.original, "_") \/ Len(p.original) > 8)
             THEN IF Contains(context_lower, "purchase amount") \/ Contains(context_lower, "payment by")
                     \/ Contains(context_lower, "exchange for")
                  THEN "purchase_amount_"
                  ELSE IF Contains(context_lower, "valuation cap") \/ Contains(context_lower, "post money")
                  THEN "valuation_cap_"
                  ELSE "amount_field_"
             ELSE strip(lower(p.name))
        ELSE p.normalized_key)

signature(p) ==
    Let(strip(lower(p.name)), LAMBDA name_lower :
    Let(lower(p.context), LAMBDA context_lower :
    Let(p.original, LAMBDA original :
    Let(p.location_type \o "_" \o LocStr(p.location_type, p.location), LAMBDA loc :
    Let(startswith(original, "$[") /\ (Contains(original, "_") \/ Len(original) > 8), LAMBDA is_blank_dollar :
        IF startswith(original, "$[") \/ (startswith(original, "[") /\ Len(original) > 10)
        THEN IF is_blank_dollar
             THEN IF Contains(context_lower, "purchase amount") \/ Contains(context_lower, "payment by")
                     \/ Contains(context_lower, "exchange for")
                  THEN "purchase_amount_" \o loc
                  ELSE IF Contains(context_lower, "post-money valuation cap") \/ Contains(context_lower, "valuation cap")
                  THEN "valuation_cap_" \o loc
                  ELSE IF Contains(context_lower, "post money")
                  THEN "valuation_cap_" \o loc
                  ELSE "amount_field_" \o loc
             ELSE name_lower \o "_" \o loc
        ELSE p.normalized_key \o "_" \o loc)))))

\* list.sort(key=...): stable, ascending in the strict order Less(x, y)
StableSort(seq, Less(_, _)) ==
    LET n == Len(seq)
        Before(i, j) == Less(seq[i], seq[j]) \/ (~Less(seq[j], seq[i]) /\ i < j)
        Rank(i) == Cardinality({j \in 1..n : Before(j, i)})
    IN  [k \in 1..n |-> seq[CHOOSE i \in 1..n : Rank(i) = k - 1]]

\* walk a position-sorted group, keeping an entry unless its start is within the
\* threshold of the start of an entry already kept
RECURSIVE FilterGroup(_, _, _)
FilterGroup(group, k, seen_positions) ==
    IF k > Len(group) THEN << >>
    ELSE Let(group[k], LAMBDA p :
         Let(\E seen_pos \in seen_positions :
                 (IF p.position[1] >= seen_pos[1] THEN p.position[1] - seen_pos[1]
                  ELSE seen_pos[1] - p.position[1]) < ProximityThreshold, LAMBDA is_duplicate :
             IF is_duplicate THEN FilterGroup(group, k + 1, seen_positions)
             ELSE << p >> \o FilterGroup(group, k + 1, seen_positions \cup {p.position})))

\* deduplication that keeps only the first entry of a group: the fault that
\* C26 must detect
UniqueOfGroup_first_only(group) ==
    << StableSort(group, LAMBDA x, y : x.position[1] < y.position[1])[1] >>

\* the entries kept of one signature group
UniqueOfGroup(group) ==
    IF Len(group) = 1 THEN group
    ELSE FilterGroup(StableSort(group, LAMBDA x, y : x.position[1] < y.position[1]), 1, {})

_smart_deduplicate(all_placeholders) ==
    Let(Len(all_placeholders), LAMBDA n :
    Let([i \in 1..n |-> signature(all_placeholders[i])], LAMBDA sig :
        \* dict insertion order: a group is created at the first candidate with its signature
    Let(SelectSeq([i \in 1..n |-> i], LAMBDA i : \A j \in 1..(i - 1) : sig[j] # sig[i]), LAMBDA first_seq :
        Flatten([k \in 1..Len(first_seq) |->
                   UniqueOfGroup(Flatten([i \in 1..n |-> IF sig[i] = sig[first_seq[k]]
                                                         THEN << all_placeholders[i] >> ELSE << >>]))]))))

\* code-point order of the characters of a table location "t-r-c"
LocationChars == "-0123456789"

CharRank(c) == IF \E i \in 1..Len(LocationChars) : Char(LocationChars, i) = c
               THEN CHOOSE i \in 1..Len(LocationChars) : Char(LocationChars, i) = c
               ELSE 0

\* Python's str < str
StrLess(a, b) ==
    \E i \in 1..(Len(b)) :
        /\ \A j \in 1..(i - 1) : j <= Len(a) /\ Char(a, j) = Char(b, j)
        /\ \/ i = Len(a) + 1
           \/ i <= Len(a) /\ CharRank(Char(a, i)) < CharRank(Char(b, i))

\* the sort key (location_type, location, position[0]) of detect_placeholders
AppearsBefore(x, y) ==
    IF x.location_type # y.location_type THEN x.location_type = "paragraph"
    ELSE IF x.location # y.location
         THEN IF x.location_type = "paragraph" THEN x.location < y.location
              ELSE StrLess(x.location, y.location)
         ELSE x.position[1] < y.position[1]

_filter_placeholders(placeholders) ==
    SelectSeq(placeholders, LAMBDA p : ~(p.name = "" \/ \A i \in 1..Len(p.name) : Char(p.name, i) = "_"))

\* the text units of a parsed document in scan order: paragraphs, then table cells row by row
CellUnits(table_data) ==
    Flatten([r \in 1..Len(table_data.rows) |->
               [c \in 1..Len(table_data.rows[r]) |->
                  [text |-> table_data.rows[r][c],
                   location |-> IntToStr(table_data.index) \o "-" \o IntToStr(r - 1) \o "-" \o IntToStr(c - 1),
                   location_type |-> "table"]]])

Units(document_content) ==
    [k \in 1..Len(document_content.paragraphs) |->
        [text |-> document_content.paragraphs[k].text,
         location |-> document_content.paragraphs[k].index,
         location_type |-> "paragraph"]]
    \o Flatten([t \in 1..Len(document_content.tables) |-> CellUnits(document_content.tables[t])])

\* every candidate of the document, before deduplication
all_placeholders(document_content) ==
    Let(Units(document_content), LAMBDA units :
        Flatten([u \in 1..Len(units) |->
                   _find_placeholders_in_text(units[u].text, units[u].location, units[u].location_type, u)]))

detect_placeholders(document_content) ==
    Let(all_placeholders(document_content), LAMBDA collected :
    Let(IF collected = << >> THEN << >> ELSE _smart_deduplicate(collected), LAMBDA unique :
    Let(IF unique = << >> THEN << >> ELSE StableSort(unique, AppearsBefore), LAMBDA sorted :
    Let(_filter_placeholders(sorted), LAMBDA filtered_placeholders :
        [i \in 1..Len(filtered_placeholders) |->
            [f \in DOMAIN filtered_placeholders[i] \cup {"sequence"} |->
                IF f = "sequence" THEN i ELSE filtered_placeholders[i][f]]]))))

(***************************************************************************)
(* FieldValidator                                                          *)
(***************************************************************************)
RemoveChars(s, C) == Join([i \in 1..Len(s) |-> IF Char(s, i) \in C THEN "" ELSE Char(s, i)])

AllChars(s, P(_)) == \A i \in 1..Len(s) : P(Char(s, i))

DigitVal(c) == (CHOOSE d \in 1..10 : Char(DigitChars, d) = c) - 1

RECURSIVE StrToNat(_)
StrToNat(d) == IF d = "" THEN 0 ELSE 10 * StrToNat(SubSeq(d, 1, Len(d) - 1)) + DigitVal(Char(d, Len(d)))

\* a digit string without its leading zeros ("0" for zero)
StripZeros(d) ==
    Let({i \in 1..Len(d) : Char(d, i) # "0"}, LAMBDA nonzero :
        IF nonzero = {} THEN "0" ELSE SubSeq(d, Min(nonzero), Len(d)))

\* the digit string of n + 1 from the digit string of n
Incr(d) ==
    LET zeros(k) == [i \in 1..k |-> "0"]
    IN  Let({i \in 1..Len(d) : Char(d, i) # "9"}, LAMBDA not9 :
            IF not9 = {} THEN "1" \o Join(zeros(Len(d)))
            ELSE SubSeq(d, 1, Max(not9) - 1) \o Char(DigitChars, DigitVal(Char(d, Max(not9))) + 2)
                 \o Join(zeros(Len(d) - Max(not9))))

\* float(s) for plain decimal notation: optional sign, digits, at most one point.
\* The value is kept in decimal digits: whole has no leading zeros, frac no
\* trailing zeros.  A string outside this notation is a ValueError (exponents,
\* inf, nan and digit separators are not part of the inputs considered).
ParseFloat(s0) ==
    Let(strip(s0), LAMBDA s :
    Let(Char(s, 1) \in {"+", "-"}, LAMBDA signed :
    Let(IF signed THEN SubSeq(s, 2, Len(s)) ELSE s, LAMBDA body :
    Let({i \in 1..Len(body) : Char(body, i) = "."}, LAMBDA dots :
    Let(IF dots = {} THEN Len(body) + 1 ELSE Min(dots), LAMBDA dot :
    Let(SubSeq(body, 1, dot - 1), LAMBDA int_digits :
    Let(SubSeq(body, dot + 1, Len(body)), LAMBDA frac_digits :
    Let({i \in 1..Len(frac_digits) : Char(frac_digits, i) # "0"}, LAMBDA significant :
    Let(/\ Cardinality(dots) <= 1
        /\ AllChars(int_digits, IsDigit) /\ AllChars(frac_digits, IsDigit)
        /\ Len(int_digits) + Len(frac_digits) >= 1, LAMBDA ok :
        IF ok
        THEN [ok |-> TRUE, neg |-> Char(s, 1) = "-", whole |-> StripZeros(int_digits),
              frac |-> IF significant = {} THEN "" ELSE SubSeq(frac_digits, 1, Max(significant))]
        ELSE [ok |-> FALSE, neg |-> FALSE, whole |-> "0", frac |-> ""])))))))))

IsZero(x) == x.whole = "0" /\ x.frac = ""
AtLeast1000(x) == ~x.neg /\ Len(x.whole) >= 4
AtMost1(x) == x.neg \/ x.whole = "0" \/ (x.whole = "1" /\ x.frac = "")
Sign(x) == IF x.neg THEN "-" ELSE ""

\* str(x) of a float
FloatStr(x) == Sign(x) \o x.whole \o "." \o (IF x.frac = "" THEN "0" ELSE x.frac)

\* the ',' option of the format mini-language
GroupThousands(d) ==
    Join([i \in 1..Len(d) |-> IF i < Len(d) /\ (Len(d) - i) % 3 = 0 THEN Char(d, i) \o "," ELSE Char(d, i)])

\* the fraction 0.frac compared with one half: -1 below, 0 equal, 1 above
HalfCompare(frac) ==
    IF frac = "" \/ DigitVal(Char(frac, 1)) < 5 THEN -1
    ELSE IF DigitVal(Char(frac, 1)) > 5 \/ Len(frac) > 1 THEN 1 ELSE 0

IsOdd(d) == DigitVal(Char(d, Len(d))) % 2 = 1

\* f"{x:,.0f}": round half to even
Format0f(x) ==
    Let(HalfCompare(x.frac) = 1 \/ (HalfCompare(x.frac) = 0 /\ IsOdd(x.whole)), LAMBDA up :
        Sign(x) \o GroupThousands(IF up THEN Incr(x.whole) ELSE x.whole))

\* f"{x:.2f}": exact for values with at most two fractional digits, otherwise
\* rounded half to even on the decimal digits
Format2f(x) ==
    Let(x.whole \o SubSeq(x.frac \o "00", 1, 2), LAMBDA hundredths :
    Let(SubSeq(x.frac, 3, Len(x.frac)), LAMBDA rest :
    Let(HalfCompare(rest) = 1 \/ (HalfCompare(rest) = 0 /\ IsOdd(hundredths)), LAMBDA up :
    Let(IF up THEN Incr(hundredths) ELSE hundredths, LAMBDA h :
        Sign(x) \o StripZeros(SubSeq(h, 1, Len(h) - 2)) \o "." \o SubSeq(h, Len(h) - 1, Len(h))))))

\* x * 100 on the decimal digits
Times100(x) ==
    [x EXCEPT !.whole = StripZeros(x.whole \o SubSeq(x.frac \o "00", 1, 2)),
              !.frac = SubSeq(x.frac, 3, Len(x.frac))]

Valid(v) == [valid |-> TRUE, processed_value |-> v, error_message |-> ""]
Invalid(msg) == [valid |-> FALSE, processed_value |-> "", error_message |-> msg]

\* re.match(r'^[a-zA-Z0-9._%+-]+@[a-zA-Z0-9.-]+\.[a-zA-Z]{2,}$', value)
IsEmail(value) ==
    Let({i \in 1..Len(value) : Char(value, i) = "@"}, LAMBDA ats :
    Let(Min(ats), LAMBDA at :
    Let(SubSeq(value, at + 1, Len(value)), LAMBDA domain :
    Let({i \in 1..Len(domain) : Char(domain, i) = "."}, LAMBDA dots :
    Let(Max(dots), LAMBDA dot :
        /\ ats # {}
        /\ at >= 2
        /\ \A i \in 1..(at - 1) : IsLetter(Char(value, i)) \/ IsDigit(Char(value, i))
                                   \/ Char(value, i) \in {".", "_", "%", "+", "-"}
        /\ dots # {}
        /\ dot >= 2
        /\ \A i \in 1..(dot - 1) : IsLetter(Char(domain, i)) \/ IsDigit(Char(domain, i))
                                    \/ Char(domain, i) \in {".", "-"}
        /\ Len(domain) - dot >= 2
        /\ \A i \in (dot + 1)..Len(domain) : IsLetter(Char(domain, i)))))))

\* re.match(r'^(0[1-9]|1[0-2])/(0[1-9]|[12][0-9]|3[01])/(\d{4})$', value)
IsDate(value) ==
    LET mm == SubSeq(value, 1, 2)
        dd == SubSeq(value, 4, 5)
    IN  /\ Len(value) = 10
        /\ Char(value, 3) = "/" /\ Char(value, 6) = "/"
        /\ AllChars(mm, IsDigit) /\ AllChars(dd, IsDigit) /\ AllChars(SubSeq(value, 7, 10), IsDigit)
        /\ StrToNat(mm) \in 1..12
        /\ StrToNat(dd) \in 1..31

state_map(v) ==
    CASE v = "de" -> "Delaware"
      [] v = "ca" -> "California"
      [] v = "ny" -> "New York"
      [] v = "tx" -> "Texas"
      [] v = "fl" -> "Florida"
      [] v = "il" -> "Illinois"
      [] v = "nv" -> "Nevada"
      [] v = "wy" -> "Wyoming"
      [] OTHER -> ""

\* The messages are the code's without their leading status glyph.
_validate_placeholder_value(raw_value, placeholder) ==
    Let(lower(placeholder.name), LAMBDA name :
    Let(placeholder.type, LAMBDA placeholder_type :
    Let(strip(raw_value), LAMBDA value :
    Let(\/ placeholder_type = "number"
        \/ Contains(name, "month") /\ \E word \in {"term", "number", "count", "quantity", "duration", "period"} :
                                          Contains(name, word)
        \/ Contains(name, "term month")
        \/ Contains(name, "months") /\ ~Contains(name, "date"), LAMBDA is_month_number_field :
    Let(ParseFloat(strip(RemoveChars(value, {","}))), LAMBDA months :
    Let(ParseFloat(RemoveChars(value, {",", "$"})), LAMBDA amount :
    Let(IF AtLeast1000(amount) THEN "$" \o Format0f(amount) ELSE "$" \o Format2f(amount), LAMBDA formatted_amount :
    Let(ParseFloat(strip(RemoveChars(value, {"%"}))), LAMBDA percentage :
    Let(RemoveChars(value, {" ", "\t", "\n", "-", "(", ")", "+"}), LAMBDA cleaned_phone :
    Let(ParseFloat(RemoveChars(value, {","})), LAMBDA number :
        IF value = "" THEN Invalid("This field is required. Please provide a value.")
        ELSE IF placeholder_type = "contact" \/ Contains(name, "email")
        THEN IF IsEmail(value) THEN Valid(value)
             ELSE Invalid("That doesn't appear to be a valid email address.\n\nPlease provide a valid email address:")
        ELSE IF is_month_number_field
        THEN IF ~months.ok
             THEN Invalid("The \"" \o placeholder.name
                          \o "\" field expects a number (e.g., 6, 12, or 24 months), not a date or text.")
             ELSE IF months.neg \/ IsZero(months)
             THEN Invalid("The \"" \o placeholder.name
                          \o "\" field should be a positive number of months (e.g., 6, 12, or 24).")
             ELSE IF months.frac = "" THEN Valid(months.whole) ELSE Valid(FloatStr(months))
        ELSE IF placeholder_type = "date" \/ (Contains(name, "date") /\ ~Contains(name, "month"))
        THEN IF IsDate(value)
             THEN IF StrToNat(SubSeq(value, 1, 2)) < 1 \/ StrToNat(SubSeq(value, 1, 2)) > 12
                  THEN Invalid("Invalid month. Please provide a date in MM/DD/YYYY format (month must be 01-12).")
                  ELSE IF StrToNat(SubSeq(value, 4, 5)) < 1 \/ StrToNat(SubSeq(value, 4, 5)) > 31
                  THEN Invalid("Invalid day. Please provide a date in MM/DD/YYYY format (day must be 01-31).")
                  ELSE Valid(value)
             ELSE Invalid("Please provide the date in MM/DD/YYYY format.")
        ELSE IF placeholder_type = "address" \/ Contains(name, "state") \/ Contains(name, "jurisdiction")
        THEN IF Contains(name, "state") \/ Contains(name, "jurisdiction")
             THEN IF state_map(strip(lower(value))) # "" THEN Valid(state_map(strip(lower(value))))
                  ELSE IF Len(value) = 2 THEN Valid(upper(value))
                  ELSE Valid(title(value))
             ELSE Valid(normalize_whitespace(value))
        ELSE IF placeholder_type = "amount" \/ \E x \in {"amount", "price", "valuation", "fee", "$"} : Contains(name, x)
        THEN IF ~amount.ok THEN Invalid("Please provide a valid amount (numbers only, $ symbol optional).")
             ELSE IF ~startswith(value, "$") THEN Valid(formatted_amount)
             ELSE IF AtLeast1000(amount) THEN Valid(formatted_amount)
             ELSE Valid(RemoveChars(value, {","}))
        ELSE IF placeholder_type = "percentage" \/ \E x \in {"rate", "discount", "percent", "%"} : Contains(name, x)
        THEN IF ~percentage.ok THEN Invalid("Please provide a valid percentage (e.g., 20 or 20%).")
             ELSE IF AtMost1(percentage) THEN Valid(FloatStr(Times100(percentage)) \o "%")
             ELSE Valid(FloatStr(percentage) \o "%")
        ELSE IF Contains(name, "phone") \/ Contains(name, "telephone")
        THEN IF cleaned_phone = "" \/ ~AllChars(cleaned_phone, IsDigit) \/ Len(cleaned_phone) < 10 \/ Len(cleaned_phone) > 15
             THEN Invalid("Please provide a valid phone number (10-15 digits).")
             ELSE IF Len(cleaned_phone) = 10
             THEN Valid("(" \o SubSeq(cleaned_phone, 1, 3) \o ") " \o SubSeq(cleaned_phone, 4, 6)
                        \o "-" \o SubSeq(cleaned_phone, 7, 10))
             ELSE Valid(value)
        ELSE IF placeholder_type = "number" \/ Contains(name, "number") \/ Contains(name, "shares")
                \/ Contains(name, "quantity")
        THEN IF ~number.ok THEN Invalid("Please provide a valid number.")
             ELSE IF AtLeast1000(number) /\ number.frac = "" THEN Valid(GroupThousands(number.whole))
             ELSE Valid(value)
        ELSE Valid(normalize_whitespace(value))))))))))))

\* re.sub(r'[^\w\s]', '', re.sub(r'[\s_]+', ' ', name.lower().strip()))
_normalize_field_name(name) ==
    Let(strip(lower(name)), LAMBDA lowered :
    Let(Join([i \in 1..Len(lowered) |->
                IF IsSpace(Char(lowered, i)) \/ Char(lowered, i) = "_"
                THEN IF i > 1 /\ (IsSpace(Char(lowered, i - 1)) \/ Char(lowered, i - 1) = "_") THEN "" ELSE " "
                ELSE Char(lowered, i)]), LAMBDA spaced :
        IF name = "" THEN ""
        ELSE Join([i \in 1..Len(spaced) |-> IF IsWord(Char(spaced, i)) \/ IsSpace(Char(spaced, i))
                                            THEN Char(spaced, i) ELSE ""])))

(***************************************************************************)
(* FillStateMachine: one chat turn                                         *)
(***************************************************************************)
\* the value of next_index when no placeholder is left (None)
NoIndex == -1

\* placeholder lists are indexed from 0 in the code: the entry at index i
At(placeholders, i) == placeholders[i + 1]

Indices(placeholders) == 0..(Len(placeholders) - 1)

\* dict assignment filled_values[k] = v
Put(filled_values, k, v) == [x \in DOMAIN filled_values \cup {k} |-> IF x = k THEN v ELSE filled_values[x]]

\* ph_id in filled_values or ph_key in filled_values
is_filled(ph, filled_values) == ph.id \in DOMAIN filled_values \/ ph.key \in DOMAIN filled_values

\* filled_values.get(id, filled_values.get(key, ''))
ValueOf(ph, filled_values) ==
    IF ph.id \in DOMAIN filled_values THEN filled_values[ph.id]
    ELSE IF ph.key \in DOMAIN filled_values THEN filled_values[ph.key]
    ELSE ""

\* the scan forward from current_index to the first placeholder not yet filled
actual_index(placeholders, filled_values, current_index) ==
    Let({i \in Indices(placeholders) : i >= current_index /\ ~is_filled(At(placeholders, i), filled_values)},
        LAMBDA unfilled : IF unfilled # {} THEN Min(unfilled)
                          ELSE Max({current_index, Len(placeholders)}))

name_matches(ph, current_placeholder) ==
    \/ lower(ph.name) = lower(current_placeholder.name)
    \/ _normalize_field_name(ph.name) = _normalize_field_name(current_placeholder.name)

\* auto_fills without the test that the receiver is not yet filled: the fault
\* that C4 must detect
auto_fills_overwriting(placeholders, filled_values, current_placeholder, value) ==
    Let(SelectSeq(placeholders, LAMBDA ph : /\ ph.id # current_placeholder.id
                                            /\ name_matches(ph, current_placeholder)), LAMBDA chosen :
        [k \in 1..Len(chosen) |-> [key |-> chosen[k].id, value |-> value, name |-> chosen[k].name]])

\* the other placeholders that receive the answer given for current_placeholder
auto_fills(placeholders, filled_values, current_placeholder, value) ==
    Let(SelectSeq(placeholders, LAMBDA ph : /\ ph.id # current_placeholder.id
                                            /\ name_matches(ph, current_placeholder)
                                            /\ ~is_filled(ph, filled_values)), LAMBDA chosen :
        [k \in 1..Len(chosen) |-> [key |-> chosen[k].id, value |-> value, name |-> chosen[k].name]])

\* the keys counted as filled when looking for the next question
all_filled_keys(placeholders, filled_values, placeholder_id, fills) ==
    DOMAIN filled_values \cup {placeholder_id}
    \cup {fills[k].key : k \in 1..Len(fills)}
    \cup {At(placeholders, Min({i \in Indices(placeholders) : At(placeholders, i).id = fills[k].key})).key :
            k \in 1..Len(fills)}

next_index(placeholders, filled_values, filled_keys) ==
    Let({i \in Indices(placeholders) :
            ~(\/ At(placeholders, i).id \in filled_keys
              \/ At(placeholders, i).key \in filled_keys
              \/ is_filled(At(placeholders, i), filled_values))},
        LAMBDA open : IF open = {} THEN NoIndex ELSE Min(open))

\* process_message without the wording of the assistant's reply; error_message
\* is the validator's (the reply of the built-in provider)
process_message(user_message, placeholders, filled_values, current_index) ==
    Let(actual_index(placeholders, filled_values, current_index), LAMBDA actual :
    Let(At(placeholders, actual), LAMBDA current_placeholder :
    Let(_validate_placeholder_value(user_message, current_placeholder), LAMBDA validation_result :
    Let(auto_fills(placeholders, filled_values, current_placeholder, validation_result.processed_value), LAMBDA fills :
        IF actual < Len(placeholders)
        THEN IF validation_result.valid
             THEN [placeholder_filled |-> TRUE,
                   placeholder_key |-> current_placeholder.id,
                   value |-> validation_result.processed_value,
                   auto_fills |-> fills,
                   has_next_index |-> TRUE,
                   next_index |-> next_index(placeholders, filled_values,
                                             all_filled_keys(placeholders, filled_values, current_placeholder.id, fills)),
                   error_message |-> ""]
             ELSE [placeholder_filled |-> FALSE, placeholder_key |-> "", value |-> "", auto_fills |-> << >>,
                   has_next_index |-> FALSE, next_index |-> NoIndex,
                   error_message |-> validation_result.error_message]
        ELSE [placeholder_filled |-> FALSE, placeholder_key |-> "", value |-> "", auto_fills |-> << >>,
              has_next_index |-> FALSE, next_index |-> NoIndex, error_message |-> ""]))))

(***************************************************************************)
(* The language-generation provider.  A provider is [groq, reply, raises]: *)
(* groq says whether the provider is configured and importable, reply is   *)
(* the text the API returns and raises says that the API call fails.       *)
(***************************************************************************)
\* the providers explored: none, one that returns a question, one that returns
\* a sentence that is no question, one that returns nothing, one whose call fails
NoProvider == [groq |-> FALSE, reply |-> "", raises |-> FALSE]

Providers ==
    {NoProvider,
     [groq |-> TRUE, reply |-> " Which value? ", raises |-> FALSE],
     [groq |-> TRUE, reply |-> "Try again.", raises |-> FALSE],
     [groq |-> TRUE, reply |-> "", raises |-> FALSE],
     [groq |-> TRUE, reply |-> "", raises |-> TRUE]}

\* _get_mock_response; the fixed wording of the two prompts has none of the
\* keywords, so the prompt is given by its variable parts
_get_mock_response(prompt) ==
    Let(lower(prompt), LAMBDA prompt_lower :
        IF Contains(prompt_lower, "date") THEN "Please provide the date in MM/DD/YYYY format."
        ELSE IF Contains(prompt_lower, "email") THEN "Please provide a valid email address."
        ELSE IF Contains(prompt_lower, "amount") \/ Contains(prompt, "$")
        THEN "Please provide the amount (include currency symbol)."
        ELSE IF Contains(prompt_lower, "company") THEN "Please provide the full legal name of the company."
        ELSE IF Contains(prompt_lower, "name") THEN "Please provide the full name."
        ELSE "Please provide the requested information for this field.")

get_ai_response(provider, prompt) ==
    IF provider.groq THEN IF provider.raises THEN _get_mock_response(prompt) ELSE provider.reply
    ELSE _get_mock_response(prompt)

\* the template question of a field, without its leading glyph
TemplateQuestion(name, placeholder_type) ==
    Let(lower(name), LAMBDA placeholder_lower :
        CASE placeholder_type = "company" ->
               "Please provide the full legal name of the company, including any corporate designation (Inc., LLC, Corp., etc.)."
          [] placeholder_type = "date" ->
               IF Contains(placeholder_lower, "incorporation")
               THEN "When was the company incorporated? Please use MM/DD/YYYY format."
               ELSE IF Contains(placeholder_lower, "effective") \/ Contains(placeholder_lower, "agreement")
               THEN "What is the effective date for this agreement? Please use MM/DD/YYYY format."
               ELSE "Please provide the date in MM/DD/YYYY format."
          [] placeholder_type = "amount" ->
               IF Contains(placeholder_lower, "purchase")
               THEN "Please enter the purchase amount (e.g., 100000 or $100,000)."
               ELSE IF Contains(placeholder_lower, "valuation")
               THEN "Please enter the valuation cap amount (e.g., 5000000 or $5,000,000)."
               ELSE "Please enter the amount (numbers only, $ symbol will be added automatically)."
          [] placeholder_type = "percentage" -> "Please enter the percentage or rate (e.g., 20 for 20%)."
          [] placeholder_type = "contact" -> "Please provide a valid email address."
          [] placeholder_type = "address" ->
               IF Contains(placeholder_lower, "state of incorporation")
               THEN "Please provide the **state of incorporation** (e.g., Delaware, California, or DE, CA)."
               ELSE IF Contains(placeholder_lower, "governing law")
               THEN "Please provide the **governing law jurisdiction** (e.g., State of Delaware, California)."
               ELSE IF Contains(placeholder_lower, "jurisdiction")
               THEN "Please provide the **jurisdiction** (e.g., State of Delaware, California)."
               ELSE IF Contains(placeholder_lower, "state")
               THEN "Please provide the **state name or abbreviation** (e.g., Delaware, DE)."
               ELSE "Please provide the **complete address**."
          [] placeholder_type = "person" ->
               IF Contains(placeholder_lower, "investor") THEN "Please provide the full name of the investor."
               ELSE IF Contains(placeholder_lower, "first") THEN "Please provide the first name."
               ELSE IF Contains(placeholder_lower, "last") THEN "Please provide the last name."
               ELSE IF Contains(placeholder_lower, "title")
               THEN "Please provide the person's title (e.g., CEO, Director, Manager)."
               ELSE "Please provide the full name."
          [] placeholder_type = "number" -> "Please provide the number."
          [] placeholder_type = "text" ->
               IF Contains(placeholder_lower, "title")
               THEN "Please provide the title or designation (e.g., CEO, CFO, Director)."
               ELSE IF Contains(placeholder_lower, "name") /\ Len(placeholder_lower) < 10
               THEN "Please provide the name requested for this field."
               ELSE IF Contains(placeholder_lower, "value")
               THEN "Please provide the value or information for: **" \o name \o "**."
               ELSE "Please provide the information for: **" \o name \o "**."
          [] OTHER -> "Please provide the information for: **" \o name \o "**.")

\* the question for a field: the provider's when it is available and returns
\* a question, the template otherwise (also when the call fails)
_generate_placeholder_question(provider, placeholder, current, total) ==
    Let("**Field " \o IntToStr(current + 1) \o " of " \o IntToStr(total) \o ": " \o placeholder.name \o "**\n\n",
        LAMBDA progress :
    Let(get_ai_response(provider, placeholder.name \o " " \o placeholder.type), LAMBDA ai_question :
        IF provider.groq /\ ai_question # "" /\ Len(ai_question) < 1000 /\ Contains(ai_question, "?")
        THEN progress \o strip(ai_question)
        ELSE progress \o TemplateQuestion(placeholder.name, placeholder.type)))

_generate_completion_message(total_placeholders) ==
    "**Perfect! All " \o IntToStr(total_placeholders) \o " fields have been completed.**"

\* process_message_with when a provider that fails or returns nothing is not
\* caught and the turn records no answer: the fault that C25 must detect
process_message_without_fallback(provider, user_message, placeholders, filled_values, current_index) ==
    IF provider.groq /\ (provider.raises \/ provider.reply = "")
    THEN [placeholder_filled |-> FALSE, placeholder_key |-> "", value |-> "", auto_fills |-> << >>,
          has_next_index |-> FALSE, next_index |-> NoIndex, error_message |-> "",
          message |-> "An error occurred while processing your message. Please try again."]
    ELSE Let(process_message(user_message, placeholders, filled_values, current_index), LAMBDA response :
             [f \in DOMAIN response \cup {"message"} |->
                 IF f = "message" THEN response.error_message ELSE response[f]])

\* process_message with the provider: the fields of process_message and the
\* text of the reply
process_message_with(provider, user_message, placeholders, filled_values, current_index) ==
    Let(actual_index(placeholders, filled_values, current_index), LAMBDA actual :
    Let(At(placeholders, actual), LAMBDA current_placeholder :
    Let(_validate_placeholder_value(user_message, current_placeholder), LAMBDA validation_result :
    Let(auto_fills(placeholders, filled_values, current_placeholder, validation_result.processed_value), LAMBDA fills :
    Let(next_index(placeholders, filled_values,
                   all_filled_keys(placeholders, filled_values, current_placeholder.id, fills)), LAMBDA next :
    Let(\/ current_placeholder.type = "number"
        \/ Contains(lower(current_placeholder.name), "month")
        \/ Contains(lower(current_placeholder.name), "term"), LAMBDA is_number_field :
    Let(get_ai_response(provider, user_message \o " " \o current_placeholder.name \o " "
                                  \o validation_result.error_message), LAMBDA ai_enhanced_msg :
        IF actual < Len(placeholders)
        THEN IF validation_result.valid
             THEN [placeholder_filled |-> TRUE,
                   placeholder_key |-> current_placeholder.id,
                   value |-> validation_result.processed_value,
                   auto_fills |-> fills,
                   has_next_index |-> TRUE,
                   next_index |-> next,
                   error_message |-> "",
                   message |-> IF next # NoIndex
                               THEN _generate_placeholder_question(provider, At(placeholders, next), next,
                                                                   Len(placeholders))
                               ELSE _generate_completion_message(Len(placeholders))]
             ELSE Let(IF ~is_number_field /\ provider.groq /\ ai_enhanced_msg # "" /\ Len(ai_enhanced_msg) < 500
                      THEN strip(ai_enhanced_msg) ELSE validation_result.error_message, LAMBDA error_msg :
                  [placeholder_filled |-> FALSE, placeholder_key |-> "", value |-> "", auto_fills |-> << >>,
                   has_next_index |-> FALSE, next_index |-> NoIndex,
                   error_message |-> error_msg, message |-> error_msg])
        ELSE [placeholder_filled |-> FALSE, placeholder_key |-> "", value |-> "", auto_fills |-> << >>,
              has_next_index |-> FALSE, next_index |-> NoIndex, error_message |-> "",
              message |-> "Great! All fields have been filled. You can now preview your document and download the completed version."])))))))

(***************************************************************************)
(* Renderer                                                                *)
(***************************************************************************)
\* A document file: paragraphs <<[text, style]>> in document order and tables
\* as rows of cell texts.  parse_document keeps the non-empty paragraphs under
\* their index in the file.
parse_document(doc) ==
    Let(SelectSeq([i \in 1..Len(doc.paragraphs) |-> i], LAMBDA i : strip(doc.paragraphs[i].text) # ""), LAMBDA kept :
        [paragraphs |-> [k \in 1..Len(kept) |-> [index |-> kept[k] - 1,
                                                 text |-> strip(doc.paragraphs[kept[k]].text),
                                                 style |-> doc.paragraphs[kept[k]].style]],
         tables |-> [t \in 1..Len(doc.tables) |->
                       [index |-> t - 1,
                        rows |-> [r \in 1..Len(doc.tables[t]) |->
                                    [c \in 1..Len(doc.tables[t][r]) |-> strip(doc.tables[t][r][c])]]]]])

\* the highlighted span of a paragraph placeholder; the white space between the
\* attributes is written as one blank
ParagraphSpan(placeholder, idx, filled_values, is_current) ==
    LET attrs == "data-ph=\"" \o placeholder.id \o "\" data-key=\"" \o placeholder.key
                 \o "\" data-index=\"" \o IntToStr(idx) \o "\"> "
    IN  IF is_current
        THEN "<span class=\"placeholder-current\" title=\"Field: " \o placeholder.name
             \o " - Currently filling this field\" " \o attrs \o "[" \o placeholder.name \o "]</span>"
        ELSE IF is_filled(placeholder, filled_values)
        THEN "<span class=\"placeholder-filled\" title=\"Field: " \o placeholder.name
             \o " - Click to edit (Value: " \o ValueOf(placeholder, filled_values) \o ")\" " \o attrs
             \o ValueOf(placeholder, filled_values) \o "</span>"
        ELSE "<span class=\"placeholder-unfilled\" title=\"Field: " \o placeholder.name
             \o " - Not yet filled\" " \o attrs \o placeholder.original \o "</span>"

\* the loop over the placeholders of one paragraph, from the k-th of idxs on.
\* substituted collects the indices of the placeholders whose markup was put
\* into the text.
RECURSIVE PreviewParagraph(_, _, _, _, _, _, _, _)
PreviewParagraph(para_text, idxs, k, placeholders, filled_values, current_index, replaced_in_this_para, substituted) ==
    IF k > Len(idxs) THEN [text |-> para_text, substituted |-> substituted]
    ELSE LET idx == idxs[k]
             placeholder == At(placeholders, idx)
         IN  IF ~Contains(para_text, placeholder.original) \/ placeholder.original \in replaced_in_this_para
             THEN PreviewParagraph(para_text, idxs, k + 1, placeholders, filled_values, current_index,
                                   replaced_in_this_para, substituted)
             ELSE PreviewParagraph(
                      ReplaceFirst(para_text, placeholder.original,
                                   ParagraphSpan(placeholder, idx, filled_values,
                                                 current_index # NoIndex /\ idx = current_index)),
                      idxs, k + 1, placeholders, filled_values, current_index,
                      replaced_in_this_para \cup {placeholder.original}, substituted \cup {idx})

style_class(style) ==
    IF Contains(lower(style), "heading") THEN "heading"
    ELSE IF Contains(lower(style), "title") THEN "title"
    ELSE "paragraph"

\* the loop over all placeholders for one table cell, from index idx on
RECURSIVE PreviewCell(_, _, _, _, _)
PreviewCell(cell_text, idx, placeholders, filled_values, substituted) ==
    IF idx >= Len(placeholders) THEN [text |-> cell_text, substituted |-> substituted]
    ELSE LET placeholder == At(placeholders, idx)
             span == IF is_filled(placeholder, filled_values)
                     THEN "<span class=\"placeholder-filled\">" \o ValueOf(placeholder, filled_values) \o "</span>"
                     ELSE "<span class=\"placeholder-unfilled\">" \o placeholder.original \o "</span>"
         IN  IF Contains(cell_text, placeholder.original)
             THEN PreviewCell(ReplaceAll(cell_text, placeholder.original, span), idx + 1, placeholders,
                              filled_values, substituted \cup {idx})
             ELSE PreviewCell(cell_text, idx + 1, placeholders, filled_values, substituted)

\* The preview as the sequence of its elements, one per paragraph and per table
\* cell (the enclosing div, the style sheet and the table and row tags are fixed
\* text around them).  current_index is NoIndex when no field is current.
generate_preview(content, placeholders, filled_values, current_index) ==
    LET Paragraph(para) ==
            Let(SelectSeq([i \in 1..Len(placeholders) |-> i - 1],
                          LAMBDA i : /\ At(placeholders, i).location_type = "paragraph"
                                     /\ At(placeholders, i).location = para.index), LAMBDA idxs :
            Let(PreviewParagraph(para.text, idxs, 1, placeholders, filled_values, current_index, {}, {}), LAMBDA done :
                [location_type |-> "paragraph", location |-> IntToStr(para.index),
                 html |-> "<p class=\"" \o style_class(para.style) \o "\">" \o done.text \o "</p>",
                 substituted |-> done.substituted]))
        Cell(table, r, c) ==
            Let(PreviewCell(table.rows[r][c], 0, placeholders, filled_values, {}), LAMBDA done :
            Let(IF r = 1 THEN "th" ELSE "td", LAMBDA tag :
                [location_type |-> "table",
                 location |-> IntToStr(table.index) \o "-" \o IntToStr(r - 1) \o "-" \o IntToStr(c - 1),
                 html |-> "<" \o tag \o ">" \o done.text \o "</" \o tag \o ">",
                 substituted |-> done.substituted]))
    IN  [k \in 1..Len(content.paragraphs) |-> Paragraph(content.paragraphs[k])]
        \o Flatten([t \in 1..Len(content.tables) |->
                      Flatten([r \in 1..Len(content.tables[t].rows) |->
                                 [c \in 1..Len(content.tables[t].rows[r]) |-> Cell(content.tables[t], r, c)]])])

\* the loop over the placeholders of one unit of the final document, from the
\* k-th of idxs on: a filled placeholder whose literal is present is replaced once
RECURSIVE FinalUnit(_, _, _, _, _, _)
FinalUnit(paragraph_text, idxs, k, placeholders, filled_values, substituted) ==
    IF k > Len(idxs) THEN [text |-> paragraph_text, substituted |-> substituted]
    ELSE LET placeholder == At(placeholders, idxs[k])
         IN  IF is_filled(placeholder, filled_values) /\ Contains(paragraph_text, placeholder.original)
             THEN FinalUnit(ReplaceFirst(paragraph_text, placeholder.original, ValueOf(placeholder, filled_values)),
                            idxs, k + 1, placeholders, filled_values, substituted \cup {idxs[k]})
             ELSE FinalUnit(paragraph_text, idxs, k + 1, placeholders, filled_values, substituted)

\* the header rule: a remaining [Company Name] takes the value of the first
\* filled placeholder named Company Name
CompanyHeader(done, placeholders, filled_values) ==
    Let({i \in Indices(placeholders) : /\ At(placeholders, i).name = "Company Name"
                                        /\ is_filled(At(placeholders, i), filled_values)}, LAMBDA named :
        IF Contains(done.text, "[Company Name]") /\ named # {}
        THEN [text |-> ReplaceFirst(done.text, "[Company Name]", ValueOf(At(placeholders, Min(named)), filled_values)),
              substituted |-> done.substituted \cup {Min(named)}]
        ELSE done)

\* The composed document as the sequence of its units: every paragraph of the
\* file, then every table cell (one paragraph per cell).
generate_final_document(doc, placeholders, filled_values) ==
    LET Here(location_type, location) ==
            SelectSeq([i \in 1..Len(placeholders) |-> i - 1],
                      LAMBDA i : /\ At(placeholders, i).location_type = location_type
                                 /\ LocStr(location_type, At(placeholders, i).location) = location)
        Paragraph(i) ==
            Let(doc.paragraphs[i + 1].text, LAMBDA paragraph_text :
            Let(IF strip(paragraph_text) = ""
                THEN [text |-> paragraph_text, substituted |-> {}]
                ELSE CompanyHeader(FinalUnit(paragraph_text, Here("paragraph", IntToStr(i)), 1,
                                             placeholders, filled_values, {}),
                                   placeholders, filled_values), LAMBDA done :
                [location_type |-> "paragraph", location |-> IntToStr(i),
                 text |-> done.text, substituted |-> done.substituted]))
        Cell(t, r, c) ==
            Let(IntToStr(t - 1) \o "-" \o IntToStr(r - 1) \o "-" \o IntToStr(c - 1), LAMBDA table_location :
            Let(FinalUnit(doc.tables[t][r][c], Here("table", table_location), 1,
                          placeholders, filled_values, {}), LAMBDA done :
                [location_type |-> "table", location |-> table_location,
                 text |-> done.text, substituted |-> done.substituted]))
    IN  [i \in 1..Len(doc.paragraphs) |-> Paragraph(i - 1)]
        \o Flatten([t \in 1..Len(doc.tables) |->
                      Flatten([r \in 1..Len(doc.tables[t]) |->
                                 [c \in 1..Len(doc.tables[t][r]) |-> Cell(t, r, c)]])])

(***************************************************************************)
(* The service: one session and the requests made on it                    *)
(***************************************************************************)
VARIABLES
    status,                     \* "none" while no session is stored, else session_data['status']
    document,                   \* the uploaded file
    content,                    \* session_data['content']
    placeholders,               \* session_data['placeholders']
    filled_values,              \* session_data['filled_values']
    current_placeholder_index,  \* session_data['current_placeholder_index']
    completed_document,         \* the composed file, << >> while there is none
    resp,                       \* the reply to the last request
    requests,                   \* requests served since the session was opened
    inflight                    \* the requests received while others are being handled, each with
                                \* its position in the handler and the session_data it holds

vars == << status, document, content, placeholders, filled_values, current_placeholder_index,
           completed_document, resp, requests, inflight >>

session == << status, document, content, placeholders, filled_values, current_placeholder_index,
              completed_document >>

NoDocument == [paragraphs |-> << >>, tables |-> << >>]

\* a reply: the fields the handlers return that the session flow depends on.
\* The preview a handler returns is generate_preview of the session it has just
\* saved and of the reply's current_index: it is the operator preview below.
Reply == [op |-> "", code |-> 200, error |-> "",
          placeholder_filled |-> FALSE, placeholder_key |-> "", value |-> "", auto_fills |-> << >>,
          next_index |-> NoIndex, current_index |-> NoIndex, all_filled |-> FALSE,
          unfilled_count |-> 0]

SessionExpired(op) == [Reply EXCEPT !.op = op, !.code = 400, !.error = "Session expired"]

len(filled) == Cardinality(DOMAIN filled)

Init ==
    /\ status = "none"
    /\ document = NoDocument
    /\ content = NoDocument
    /\ placeholders = << >>
    /\ filled_values = << >>
    /\ current_placeholder_index = 0
    /\ completed_document = << >>
    /\ resp = Reply
    /\ requests = 0
    /\ inflight = << >>

\* POST /api/upload of one of the documents in docs
upload_document(docs) ==
    \E doc \in docs :
        /\ status = "none"
        /\ status' = "active"
        /\ document' = doc
        /\ content' = parse_document(doc)
        /\ placeholders' = detect_placeholders(parse_document(doc))
        /\ filled_values' = << >>
        /\ current_placeholder_index' = 0
        /\ completed_document' = << >>
        /\ resp' = [Reply EXCEPT !.op = "upload"]
        /\ requests' = 0
        /\ inflight' = << >>

\* filled_values after the answer and its auto-fills have been stored under their ids
RECURSIVE StoreAll(_, _, _)
StoreAll(filled, fills, k) ==
    IF k > Len(fills) THEN filled ELSE StoreAll(Put(filled, fills[k].key, fills[k].value), fills, k + 1)

\* POST /api/chat
chat(message) ==
    IF status = "none"
    THEN resp' = SessionExpired("chat") /\ UNCHANGED session
    ELSE \E user_message \in {strip(message)} :
         \E provider \in Providers :
         \E response \in {process_message_with(provider, user_message, placeholders, filled_values,
                                                current_placeholder_index)} :
         \E filled \in {IF response.placeholder_filled
                         THEN StoreAll(Put(filled_values, response.placeholder_key, response.value),
                                       response.auto_fills, 1)
                         ELSE filled_values} :
         \E index \in {IF ~response.placeholder_filled THEN current_placeholder_index
                        ELSE IF response.next_index # NoIndex THEN response.next_index
                        ELSE current_placeholder_index + 1} :
         \E all_filled \in {len(filled) = Len(placeholders)} :
         \E preview_index \in {IF response.next_index # NoIndex THEN response.next_index
                                ELSE IF ~all_filled /\ index < Len(placeholders) THEN index
                                ELSE NoIndex} :
             /\ filled_values' = filled
             /\ current_placeholder_index' = index
             /\ resp' = [Reply EXCEPT !.op = "chat",
                                      !.error = IF response.error_message # "" THEN "Invalid value" ELSE "",
                                      !.placeholder_filled = response.placeholder_filled,
                                      !.placeholder_key = response.placeholder_key,
                                      !.value = response.value,
                                      !.auto_fills = [k \in 1..Len(response.auto_fills) |-> response.auto_fills[k].key],
                                      !.next_index = response.next_index,
                                      !.current_index = preview_index,
                                      !.all_filled = all_filled]
             /\ UNCHANGED << status, document, content, placeholders, completed_document >>

\* the first placeholder addressed by field_key, by id or by key; NoIndex if none
Addressed(field_key) ==
    LET hits == {i \in Indices(placeholders) : At(placeholders, i).id = field_key \/ At(placeholders, i).key = field_key}
    IN  IF hits = {} THEN NoIndex ELSE Min(hits)

\* the other placeholders with exactly the name of the one at index i
SameName(i) == {j \in Indices(placeholders) : /\ At(placeholders, j).id # At(placeholders, i).id
                                               /\ At(placeholders, j).name = At(placeholders, i).name}

\* StoreIds building a fresh map of the ids only, which forgets the entries
\* stored before: the fault that C15 must detect
StoreIds_forgetting(filled, js, v) == [x \in {At(placeholders, j).id : j \in js} |-> v]

\* filled with value v stored under the id of every placeholder of the set js
StoreIds(filled, js, v) ==
    LET ids == {At(placeholders, j).id : j \in js}
    IN  [x \in DOMAIN filled \cup ids |-> IF x \in ids THEN v ELSE filled[x]]

\* the ids of the placeholders at the indices js, in index order
IdsOf(js) ==
    LET chosen == SelectSeq(placeholders, LAMBDA ph : \E j \in js : At(placeholders, j).id = ph.id)
    IN  [k \in 1..Len(chosen) |-> chosen[k].id]

\* Refused with a validation failure that is reported but does not end the
\* request: the fault that C6 must detect
Refused_without_return(op, field_key, new_value) ==
    Let(Addressed(field_key), LAMBDA i :
    Let([Reply EXCEPT !.op = op, !.code = 400], LAMBDA reply :
        IF field_key = "" THEN [reply EXCEPT !.error = "No field specified"]
        ELSE IF status = "none" THEN SessionExpired(op)
        ELSE IF i = NoIndex THEN [reply EXCEPT !.error = "Field not found"]
        ELSE IF ~_validate_placeholder_value(new_value, At(placeholders, i)).valid
        THEN [reply EXCEPT !.code = 200, !.error = "Invalid value"]
        ELSE [reply EXCEPT !.code = 200]))

\* the requests /api/edit and /api/fill refuse before touching the session
Refused(op, field_key, new_value) ==
    Let(Addressed(field_key), LAMBDA i :
    Let([Reply EXCEPT !.op = op, !.code = 400], LAMBDA reply :
        IF field_key = "" THEN [reply EXCEPT !.error = "No field specified"]
        ELSE IF status = "none" THEN SessionExpired(op)
        ELSE IF i = NoIndex THEN [reply EXCEPT !.error = "Field not found"]
        ELSE IF ~_validate_placeholder_value(new_value, At(placeholders, i)).valid
        THEN [reply EXCEPT !.error = "Invalid value"]
        ELSE [reply EXCEPT !.code = 200]))

\* POST /api/edit
edit_field(field_key, value) ==
    \E new_value \in {strip(value)} :
    \E refusal \in {Refused("edit", field_key, new_value)} :
        IF refusal.code # 200
        THEN resp' = refusal /\ UNCHANGED session
        ELSE \E i \in {Addressed(field_key)} :
             \E placeholder \in {At(placeholders, i)} :
             \E processed_value \in {_validate_placeholder_value(new_value, placeholder).processed_value} :
             \E filled \in {StoreIds(Put(Put(filled_values, placeholder.id, processed_value),
                                         field_key, processed_value),
                                     SameName(i), processed_value)} :
             \E by_key \in {{j \in Indices(placeholders) : At(placeholders, j).key = field_key}} :
             \E current_index \in {IF len(filled) < Len(placeholders) THEN len(filled) ELSE NoIndex} :
             /\ filled_values' = filled
             /\ current_placeholder_index' = IF by_key # {} THEN Min(by_key) ELSE current_placeholder_index
             /\ resp' = [refusal EXCEPT !.placeholder_key = placeholder.id,
                                        !.value = processed_value,
                                        !.auto_fills = IdsOf(SameName(i)),
                                        !.current_index = current_index]
             /\ UNCHANGED << status, document, content, placeholders, completed_document >>

\* POST /api/fill.  The reply lists the auto-filled placeholders by name; they
\* are kept here by id, as in the replies of chat and edit.
fill_field_directly(field_key, raw_value) ==
    \E value \in {strip(raw_value)} :
    \E refusal \in {Refused("fill", field_key, value)} :
        IF refusal.code # 200
        THEN resp' = refusal /\ UNCHANGED session
        ELSE \E i \in {Addressed(field_key)} :
             \E placeholder \in {At(placeholders, i)} :
             \E processed_value \in {_validate_placeholder_value(value, placeholder).processed_value} :
             \E stored \in {Put(filled_values, placeholder.id, processed_value)} :
             \E auto_filled \in {{j \in SameName(i) : At(placeholders, j).id \notin DOMAIN stored}} :
             \E filled \in {StoreIds(stored, auto_filled, processed_value)} :
             \E next \in {next_index(placeholders, filled, DOMAIN filled)} :
             /\ filled_values' = filled
             /\ resp' = [refusal EXCEPT !.placeholder_key = placeholder.id,
                                        !.value = processed_value,
                                        !.auto_fills = IdsOf(auto_filled),
                                        !.next_index = next,
                                        !.current_index = next]
             /\ UNCHANGED << status, document, content, placeholders, current_placeholder_index, completed_document >>

\* a preview that takes the filled placeholders off the list of the session:
\* the fault that C16 must detect
preview_document_dropping_filled ==
    /\ status # "none"
    /\ resp' = [Reply EXCEPT !.op = "preview", !.current_index = current_placeholder_index]
    /\ placeholders' = SelectSeq(placeholders, LAMBDA ph : ~is_filled(ph, filled_values))
    /\ UNCHANGED << status, document, content, filled_values, current_placeholder_index, completed_document >>

\* GET /api/preview
preview_document ==
    /\ resp' = IF status = "none" THEN [SessionExpired("preview") EXCEPT !.error = "Session not found"]
               ELSE [Reply EXCEPT !.op = "preview", !.current_index = current_placeholder_index]
    /\ UNCHANGED session

\* the preview in the reply to the last request
preview ==
    IF resp.op \in {"chat", "edit", "fill", "preview"} /\ resp.code = 200
    THEN generate_preview(content, placeholders, filled_values, resp.current_index)
    ELSE << >>

\* POST /api/complete; success is the outcome of writing the composed file
complete_document(success) ==
    LET unfilled == SelectSeq(placeholders, LAMBDA ph : ph.key \notin DOMAIN filled_values)
    IN  IF status = "none"
        THEN resp' = [SessionExpired("complete") EXCEPT !.error = "Session not found"] /\ UNCHANGED session
        ELSE IF len(filled_values) < Len(placeholders)
        THEN /\ resp' = [Reply EXCEPT !.op = "complete", !.code = 400, !.error = "Incomplete document",
                                      !.unfilled_count = Len(unfilled)]
             /\ UNCHANGED session
        ELSE IF ~success
        THEN /\ resp' = [Reply EXCEPT !.op = "complete", !.code = 500, !.error = "Document generation failed"]
             /\ UNCHANGED session
        ELSE /\ completed_document' = generate_final_document(document, placeholders, filled_values)
             /\ status' = "completed"
             /\ resp' = [Reply EXCEPT !.op = "complete"]
             /\ UNCHANGED << document, content, placeholders, filled_values, current_placeholder_index >>

\* filled_count and total_count of the reply to the last request (a chat reply
\* gives them as the percentage and the all_filled flag only)
filled_count == len(filled_values)

total_count == Len(placeholders)

\* the unfilled_placeholders of the reply that refuses an incomplete document
unfilled_placeholders ==
    IF resp.op = "complete" /\ resp.error = "Incomplete document"
    THEN SelectSeq(placeholders, LAMBDA ph : ph.key \notin DOMAIN filled_values)
    ELSE << >>

\* POST /api/reset
reset_session ==
    /\ status' = "none"
    /\ document' = NoDocument
    /\ content' = NoDocument
    /\ placeholders' = << >>
    /\ filled_values' = << >>
    /\ current_placeholder_index' = 0
    /\ completed_document' = << >>
    /\ resp' = [Reply EXCEPT !.op = "reset"]
    /\ requests' = 0
    /\ inflight' = << >>

(***************************************************************************)
(* Documents and inputs explored                                           *)
(***************************************************************************)
Normal(texts) == [k \in 1..Len(texts) |-> [text |-> texts[k], style |-> "Normal"]]

\* two fields named Company in different paragraphs, the second sharing its
\* paragraph (and so its key) with a field named Company Name
CompanyDoc == [paragraphs |-> Normal(<< "[Company]", "[Company] xxxxxxxxxx [Company Name]" >>), tables |-> << >>]

\* names equal only after normalisation, an amount field between them, and an
\* empty paragraph that parse_document skips
PartyDoc == [paragraphs |-> Normal(<< "[Party A]", "", "[Fee] for [Party_A]" >>), tables |-> << >>]

\* the same literal in a heading and in a table cell
TableDoc == [paragraphs |-> << [text |-> " [Party A] ", style |-> "Heading 1"] >>,
             tables |-> << << << "[Party A]" >> >> >>]

SessionDocs == {CompanyDoc, PartyDoc, TableDoc}

\* what a client types: nothing, a number, a word
Messages == {"", "5", "x7"}

\* a field identifier no placeholder has
UnknownField == "ph_0_0"

\* the identifiers a client can send: any id or key of the index, an unknown one, none
FieldKeys == {placeholders[k].id : k \in 1..Len(placeholders)} \cup {placeholders[k].key : k \in 1..Len(placeholders)}
             \cup {UnknownField, ""}

\* the number of requests explored on one session
MaxRequests == 3

Served == requests < MaxRequests /\ requests' = requests + 1 /\ UNCHANGED inflight

Next ==
    \/ upload_document(SessionDocs)
    \/ Served /\ \E message \in Messages : chat(message)
    \/ Served /\ \E field_key \in FieldKeys, value \in Messages : edit_field(field_key, value)
    \/ Served /\ \E field_key \in FieldKeys, value \in Messages : fill_field_directly(field_key, value)
    \/ Served /\ preview_document
    \/ Served /\ \E success \in BOOLEAN : complete_document(success)
    \/ reset_session

Spec == Init /\ [][Next]_vars

(***************************************************************************)
(* Detection alone: uploads of every small document over DetectTexts       *)
(***************************************************************************)
\* blanks in the syntaxes of the pattern list: an unlabeled dollar blank, alone
\* and after a label, a labelled dollar blank, a bracket field, and insert
\* directives in upper and lower case, and a dollar blank after both labels
DetectTexts == {"$[____]", "valuation cap $[____]", "$[Name]", "[Fee]", "[INSERT Fee]", "[insert date]",
                "purchase amount, valuation cap $[____]"}

\* the number of text units (paragraphs and cells) of a document explored
MaxUnits == 2

TextSeqs(n) == UNION {[1..k -> DetectTexts] : k \in 0..n}

\* documents of up to MaxUnits units: paragraphs, then one table of one row
DetectDocs ==
    {[paragraphs |-> Normal(ps), tables |-> IF cs = << >> THEN << >> ELSE << << cs >> >>] :
        <<ps, cs>> \in {pc \in TextSeqs(MaxUnits) \X TextSeqs(MaxUnits) : Len(pc[1]) + Len(pc[2]) \in 1..MaxUnits}}

\* the number of rows of the long table
TableRows == 11

\* one table of TableRows one-cell rows, with a field in the third row and one in the last
LongTableDoc ==
    [paragraphs |-> << >>,
     tables |-> << [r \in 1..TableRows |-> << IF r = 3 THEN "[Fee]" ELSE IF r = TableRows THEN "[Tax]" ELSE "x" >>] >>]

NextDetect ==
    \/ upload_document(DetectDocs \cup {LongTableDoc})
    \/ reset_session

SpecDetect == Init /\ [][NextDetect]_vars

(***************************************************************************)
(* Sessions on documents that repeat a literal inside one paragraph        *)
(***************************************************************************)
\* the two occurrences are far enough apart to be two entries of the index
RepeatDoc == [paragraphs |-> Normal(<< "[Fee] xxxxxxxxxx [Fee]" >>), tables |-> << >>]

\* the second occurrence is within the proximity threshold of the first
CloseDoc == [paragraphs |-> Normal(<< "[Fee] [Fee]" >>), tables |-> << >>]

\* one blank, for comparison
SingleDoc == [paragraphs |-> Normal(<< "Pay [Fee] now" >>), tables |-> << >>]

\* three occurrences, each within the proximity threshold of the one before it
TripleDoc == [paragraphs |-> Normal(<< "[Fee] [Fee] [Fee]" >>), tables |-> << >>]

RenderDocs == {RepeatDoc, CloseDoc, SingleDoc, TripleDoc}

NextRender ==
    \/ upload_document(RenderDocs)
    \/ Served /\ \E message \in Messages : chat(message)
    \/ Served /\ \E field_key \in FieldKeys, value \in Messages : edit_field(field_key, value)
    \/ Served /\ \E field_key \in FieldKeys, value \in Messages : fill_field_directly(field_key, value)
    \/ Served /\ preview_document
    \/ Served /\ \E success \in BOOLEAN : complete_document(success)
    \/ reset_session

SpecRender == Init /\ [][NextRender]_vars

(***************************************************************************)
(* Sessions that answer one field: every answer of ValidateAnswers is      *)
(* validated for every field of FieldNames                                 *)
(***************************************************************************)
\* month fields with each duration word, a count, two dates, two percentages,
\* month fields whose names also carry an email or a company-name phrase,
\* phone fields, and a title, a signature, a person and a free-text field
FieldNames ==
    {"Term Months", "Number of Months", "Month Count", "Duration Months", "Period Months",
     "Number of Shares", "Effective Date", "Date of Safe", "Discount Rate", "Interest Rate",
     "Email Term Months", "Company Name Term Months", "Phone", "Telephone", "Company Phone",
     "Title", "Signature", "Investor Name", "Notes"}

FieldDoc(name) == [paragraphs |-> Normal(<< "[" \o name \o "]" >>), tables |-> << >>]

ValidateDocs == {FieldDoc(name) : name \in FieldNames}

\* integers, dates well-formed and malformed in each part, fractions, a percentage, a word,
\* phone numbers of 7, 10, 11 and 16 digits
ValidateAnswers ==
    {"12", "01/15/2024", "12/31/2024", "13/15/2024", "00/10/2024", "12/32/2024", "12/00/2024",
     "1/5/2024", "01-15-2024", "20", "0.2", "20%", "12.5", "1", "100", "abc",
     "5551234567", "(555) 123-4567", "+1 555 123 4567", "555-1234", "1234567890123456"}

NextValidate ==
    \/ upload_document(ValidateDocs)
    \/ Served /\ \E message \in ValidateAnswers : chat(message)
    \/ reset_session

SpecValidate == Init /\ [][NextValidate]_vars

(***************************************************************************)
(* The Redis-backed session store under requests that overlap: every       *)
(* command sent to Redis is a step of its own, and the steps of the        *)
(* requests being handled interleave.  The variables of the session are    *)
(* the value stored under the key session:<id>.                            *)
(***************************************************************************)
\* json.loads of the value under the key; status "none" where there is no key
Stored ==
    [status |-> status, document |-> document, content |-> content, placeholders |-> placeholders,
     filled_values |-> filled_values, current_placeholder_index |-> current_placeholder_index,
     completed_document |-> completed_document]

\* what get_session returns when the key is absent
NoData ==
    [status |-> "none", document |-> NoDocument, content |-> NoDocument, placeholders |-> << >>,
     filled_values |-> << >>, current_placeholder_index |-> 0, completed_document |-> << >>]

\* redis_client.setex(key, ttl_seconds, json.dumps(data))
setex(data) ==
    /\ status' = data.status
    /\ document' = data.document
    /\ content' = data.content
    /\ placeholders' = data.placeholders
    /\ filled_values' = data.filled_values
    /\ current_placeholder_index' = data.current_placeholder_index
    /\ completed_document' = data.completed_document

\* the requests explored while others are being handled
StoreOps == {"chat", "preview", "reset"}

\* the session_data a chat request saves for the session_data it holds, and its reply
chat_saved(provider, message, session_data) ==
    Let(process_message_with(provider, strip(message), session_data.placeholders, session_data.filled_values,
                             session_data.current_placeholder_index), LAMBDA response :
    Let(IF response.placeholder_filled
        THEN StoreAll(Put(session_data.filled_values, response.placeholder_key, response.value),
                      response.auto_fills, 1)
        ELSE session_data.filled_values, LAMBDA filled :
    Let(IF ~response.placeholder_filled THEN session_data.current_placeholder_index
        ELSE IF response.next_index # NoIndex THEN response.next_index
        ELSE session_data.current_placeholder_index + 1, LAMBDA index :
        [session_data |-> [session_data EXCEPT !.filled_values = filled, !.current_placeholder_index = index],
         reply |-> [Reply EXCEPT !.op = "chat",
                                 !.error = IF response.error_message # "" THEN "Invalid value" ELSE "",
                                 !.placeholder_filled = response.placeholder_filled,
                                 !.placeholder_key = response.placeholder_key,
                                 !.value = response.value,
                                 !.auto_fills = [k \in 1..Len(response.auto_fills) |-> response.auto_fills[k].key],
                                 !.next_index = response.next_index,
                                 !.all_filled = len(filled) = Len(session_data.placeholders)]])))

\* the reply of a handler to which get_session has returned nothing
NotFound(op) ==
    IF op = "reset" THEN [Reply EXCEPT !.op = "reset"]
    ELSE IF op = "preview" THEN [SessionExpired("preview") EXCEPT !.error = "Session not found"]
    ELSE SessionExpired(op)

\* a request arrives and its handler is about to call get_session
receive(op, message) ==
    /\ status # "none" \/ inflight # << >>
    /\ Len(inflight) < MaxRequests
    /\ inflight' = Append(inflight, [op |-> op, message |-> message, pc |-> "get",
                                     session_data |-> NoData, reply |-> Reply])
    /\ UNCHANGED << session, resp, requests >>

\* get_session: data = redis_client.get(key); None is returned where there is
\* no key, and the handler replies with its error
redis_get(r) ==
    /\ inflight[r].pc = "get"
    /\ IF status = "none"
       THEN /\ inflight' = [inflight EXCEPT ![r].pc = "done", ![r].reply = NotFound(inflight[r].op)]
            /\ resp' = NotFound(inflight[r].op)
       ELSE /\ inflight' = [inflight EXCEPT ![r].pc = "save", ![r].session_data = Stored]
            /\ UNCHANGED resp
    /\ UNCHANGED << session, requests >>

\* get_session: save_session(session_id, session_data) of the data just read,
\* with its new last_accessed_at
get_session_save(r) ==
    /\ inflight[r].pc = "save"
    /\ setex(inflight[r].session_data)
    /\ inflight' = [inflight EXCEPT ![r].pc = "handler"]
    /\ UNCHANGED << resp, requests >>

\* redis_client.delete(key)
delete_session ==
    /\ status' = "none"
    /\ document' = NoDocument
    /\ content' = NoDocument
    /\ placeholders' = << >>
    /\ filled_values' = << >>
    /\ current_placeholder_index' = 0
    /\ completed_document' = << >>

\* the rest of the handler, on the session_data that get_session returned:
\* chat saves what process_message made of it, reset deletes the key, preview
\* only replies
handler(r) ==
    /\ inflight[r].pc = "handler"
    /\ \E provider \in Providers :
       \E saved \in {IF inflight[r].op = "chat"
                     THEN chat_saved(provider, inflight[r].message, inflight[r].session_data)
                     ELSE [session_data |-> inflight[r].session_data,
                           reply |-> [Reply EXCEPT !.op = inflight[r].op,
                                      !.current_index = IF inflight[r].op = "preview"
                                                        THEN inflight[r].session_data.current_placeholder_index
                                                        ELSE NoIndex]]} :
           /\ inflight' = [inflight EXCEPT ![r].pc = "done", ![r].session_data = saved.session_data,
                                           ![r].reply = saved.reply]
           /\ resp' = saved.reply
           /\ IF inflight[r].op = "chat" THEN setex(saved.session_data)
              ELSE IF inflight[r].op = "reset" THEN delete_session
              ELSE UNCHANGED session
    /\ UNCHANGED requests

\* the document of the session on which the requests overlap
StoreDocs == {PartyDoc}

\* one upload, whose session id the later requests carry
NextStore ==
    \/ status = "none" /\ inflight = << >> /\ upload_document(StoreDocs)
    \/ \E op \in StoreOps, message \in Messages : (op = "chat" \/ message = "") /\ receive(op, message)
    \/ \E r \in DOMAIN inflight : redis_get(r)
    \/ \E r \in DOMAIN inflight : get_session_save(r)
    \/ \E r \in DOMAIN inflight : handler(r)

SpecStore == Init /\ [][NextStore]_vars

(***************************************************************************)
(* Properties of the session flow                                          *)
(***************************************************************************)
\* the index of the placeholder with the given id
IndexOfId(id) == Min({i \in Indices(placeholders) : At(placeholders, i).id = id})

\* the last request was a chat answer that was accepted and recorded
ChatAccepted == resp.op = "chat" /\ resp.placeholder_filled

\* the placeholders with neither id nor key in filled
Unfilled(filled) == {i \in Indices(placeholders) : ~is_filled(At(placeholders, i), filled)}

\* C1: every accepted chat answer is recorded for the lowest-index placeholder
\* that was unfilled when the answer came in, never for a later placeholder
\* while an earlier one is unfilled, whatever chat answers, direct fills and
\* edits came before.
C1_AnswerGoesToLowestUnfilled ==
    [][ChatAccepted' => IndexOfId(resp'.placeholder_key) = Min(Unfilled(filled_values))]_vars

\* C2: complete_document never composes the document (status completed, a
\* document generated) while a placeholder has neither id nor key in
\* filled_values.
C2_CompletionGate ==
    (status = "completed" \/ completed_document # << >>) => Unfilled(filled_values) = {}

\* the placeholder at index i is located at the unit (a preview element or a
\* unit of the composed document)
LocatedAt(i, unit) ==
    /\ At(placeholders, i).location_type = unit.location_type
    /\ LocStr(At(placeholders, i).location_type, At(placeholders, i).location) = unit.location

\* every placeholder substituted in a unit of units is located at that unit
LocationExact(units) ==
    \A k \in 1..Len(units) : \A i \in units[k].substituted : LocatedAt(i, units[k])

\* C3: in the preview and in the composed document, only placeholders whose
\* (location_type, location) is that of the paragraph or table cell are
\* substituted there.
C3_LocationExactSubstitution ==
    LocationExact(preview) /\ LocationExact(completed_document)

\* the placeholders other than the one at index i whose name matches its name
\* without regard to case or after normalisation
Matching(i) ==
    {j \in Indices(placeholders) \ {i} :
        \/ lower(At(placeholders, j).name) = lower(At(placeholders, i).name)
        \/ _normalize_field_name(At(placeholders, j).name) = _normalize_field_name(At(placeholders, i).name)}

\* the entries of a sequence as a set
Range(seq) == {seq[k] : k \in 1..Len(seq)}

C5_NextIsLowestUnfilled ==
    ChatAccepted =>
        IF Unfilled(filled_values) = {}
        THEN resp.next_index = NoIndex
        ELSE /\ resp.next_index = Min(Unfilled(filled_values))
             /\ current_placeholder_index = resp.next_index

\* the last request was a chat, edit or direct fill that ended in a validation
\* failure or named a field that no placeholder has
Rejected ==
    /\ resp.op \in {"chat", "edit", "fill"}
    /\ resp.error \in {"Invalid value", "Field not found"}

\* C6: a chat, edit or direct-fill request that ends in a validation failure
\* (the empty value included) or addresses no placeholder leaves filled_values
\* and the current index of the session as they were before the request.
C6_RejectedRequestChangesNothing ==
    [][Rejected' => /\ filled_values' = filled_values
                    /\ current_placeholder_index' = current_placeholder_index]_vars

\* a request was rejected on a session that already holds an accepted value
C6_Witness ==
    /\ Rejected
    /\ status = "active"
    /\ filled_values # << >>

\* C7: an accepted edit or direct fill of a field that is already filled
\* overwrites that field's value, gives the value to the same-named placeholders
\* that are not yet filled, and leaves every other filled placeholder filled
\* with the value it had.
C7_EditKeepsOtherFilledFields ==
    [][(resp'.op \in {"edit", "fill"} /\ resp'.code = 200
          /\ is_filled(At(placeholders, IndexOfId(resp'.placeholder_key)), filled_values)) =>
        LET i == IndexOfId(resp'.placeholder_key)
        IN  /\ ValueOf(At(placeholders, i), filled_values') = resp'.value
            /\ \A j \in SameName(i) \cap Unfilled(filled_values) :
                   ValueOf(At(placeholders, j), filled_values') = resp'.value
            /\ \A j \in Indices(placeholders) \ ({i} \cup Unfilled(filled_values)) :
                   /\ is_filled(At(placeholders, j), filled_values')
                   /\ ValueOf(At(placeholders, j), filled_values') = ValueOf(At(placeholders, j), filled_values)]_vars

\* C12: in every state of a session either every placeholder is filled or the
\* stored current index is an index of the placeholder list whose placeholder
\* is unfilled.
C12_FillStateInvariant ==
    status = "active" =>
        \/ Unfilled(filled_values) = {}
        \/ current_placeholder_index \in Unfilled(filled_values)

\* C13: when composition is refused as incomplete, the placeholders reported
\* as missing are exactly the unfilled ones: none of them is filled, and the
\* count reported is the number of unfilled placeholders.
C13_MissingFieldsAreUnfilled ==
    (resp.op = "complete" /\ resp.error = "Incomplete document") =>
        /\ \A k \in 1..Len(unfilled_placeholders) : ~is_filled(unfilled_placeholders[k], filled_values)
        /\ resp.unfilled_count = Cardinality(Unfilled(filled_values))

\* the last request was answered with the progress of the session
ProgressReported == resp.op \in {"chat", "edit", "fill", "preview"} /\ resp.code = 200

\* C14: the filled count reported is the number of filled placeholders, so it
\* never exceeds the total count (the percentage never exceeds 100), and the
\* all_filled flag of a chat reply is true exactly when every placeholder is
\* filled.
C14_ProgressMetrics ==
    ProgressReported =>
        /\ filled_count = Cardinality(Indices(placeholders) \ Unfilled(filled_values))
        /\ filled_count <= total_count
        /\ resp.op = "chat" => (resp.all_filled <=> Unfilled(filled_values) = {})

\* C15: no chat, edit, direct-fill, preview or complete request removes a key
\* of filled_values; only a reset empties it.
C15_FilledValuesOnlyGrows ==
    [][resp'.op \notin {"reset", "upload"} => DOMAIN filled_values \subseteq DOMAIN filled_values']_vars

\* an accepted edit of a session that holds another value as well
C15_Witness ==
    /\ resp.op = "edit" /\ resp.code = 200
    /\ requests >= 2
    /\ \E k \in DOMAIN filled_values : filled_values[k] # resp.value

\* C16: no chat, edit, direct-fill, preview or complete request changes the
\* placeholder list of the session.
C16_PlaceholderIndexImmutable ==
    [][resp'.op \notin {"reset", "upload"} => placeholders' = placeholders]_vars

\* the session has taken an answer and, after it, further requests
C16_Witness ==
    /\ status \in {"active", "completed"}
    /\ placeholders # << >>
    /\ filled_values # << >>
    /\ requests >= 3

(***************************************************************************)
(* Properties of the placeholder index                                     *)
(***************************************************************************)
\* the entries of the index as a set
Entries == {placeholders[k] : k \in 1..Len(placeholders)}

\* two spans share at least one character
Overlap(a, b) == a[1] < b[2] /\ b[1] < a[2]

\* C8: no two distinct entries of the index returned by detect_placeholders
\* have the same (location_type, location, position).
C8_LocationExclusivity ==
    \A p, q \in Entries :
        (p.location_type = q.location_type /\ p.location = q.location /\ p.position = q.position) => p = q

\* an index entry without the sequence number it gets in the index
Detected(p) == [f \in DOMAIN p \ {"sequence"} |-> p[f]]

\* what detection keeps of the u-th unit of the document taken on its own
UnitLocal(u) ==
    Let(Units(content)[u], LAMBDA unit :
    Let(_find_placeholders_in_text(unit.text, unit.location, unit.location_type, u), LAMBDA found :
        IF found = << >> THEN << >> ELSE _filter_placeholders(_smart_deduplicate(found))))

\* C9: the index entries of every unit of the document are exactly the
\* candidates that deduplication keeps of that unit taken on its own, no
\* candidate is dropped because of a candidate of another location, and the
\* ids of the entries are pairwise distinct.
C9_NoCrossLocationMerge ==
    /\ \A u \in 1..Len(Units(content)) :
           {Detected(p) : p \in {q \in Entries : /\ q.location_type = Units(content)[u].location_type
                                                  /\ q.location = Units(content)[u].location}}
           = {UnitLocal(u)[k] : k \in 1..Len(UnitLocal(u))}
    /\ \A i, j \in Indices(placeholders) : At(placeholders, i).id = At(placeholders, j).id => i = j

\* two identical blanks with the same inferred name in different units are
\* both in the index
C9_Witness ==
    \E p, q \in Entries :
        /\ << p.location_type, p.location >> # << q.location_type, q.location >>
        /\ p.original = "$[____]" /\ q.original = p.original
        /\ p.name = q.name
        /\ p.id # q.id

\* C10: a blank matched by more than one pattern of the list (two candidates
\* of different patterns with overlapping spans in one unit) has exactly one
\* entry in the index.
C10_OneEntryPerBlank ==
    status = "active" =>
        Let(all_placeholders(content), LAMBDA candidates :
            \A a, b \in 1..Len(candidates) :
                (/\ candidates[a].pattern_type # candidates[b].pattern_type
                 /\ candidates[a].location_type = candidates[b].location_type
                 /\ candidates[a].location = candidates[b].location
                 /\ Overlap(candidates[a].position, candidates[b].position))
                => Cardinality({p \in Entries : /\ p.location_type = candidates[a].location_type
                                                /\ p.location = candidates[a].location
                                                /\ Overlap(p.position, candidates[a].position)}) = 1)

(***************************************************************************)
(* Properties of rendering                                                  *)
(***************************************************************************)
\* the pairs of index entries of one paragraph with the identical original text
Twins ==
    {ij \in Indices(placeholders) \X Indices(placeholders) :
        /\ ij[1] < ij[2]
        /\ At(placeholders, ij[1]).location_type = "paragraph"
        /\ At(placeholders, ij[2]).location_type = "paragraph"
        /\ At(placeholders, ij[1]).location = At(placeholders, ij[2]).location
        /\ At(placeholders, ij[1]).original = At(placeholders, ij[2]).original}

\* the units of a rendering that show the paragraph of the placeholder at index i
UnitsOf(units, i) == {k \in 1..Len(units) : LocatedAt(i, units[k])}

\* C11: two placeholders of one paragraph with the identical original text are
\* both substituted in that paragraph, in the preview (each with its own
\* state) and, once both are filled, in the composed document.
C11_RepeatedLiteralEachReplaced ==
    \A ij \in Twins :
        /\ \A k \in UnitsOf(preview, ij[1]) : {ij[1], ij[2]} \subseteq preview[k].substituted
        /\ \A k \in UnitsOf(completed_document, ij[1]) :
               (is_filled(At(placeholders, ij[1]), filled_values) /\ is_filled(At(placeholders, ij[2]), filled_values))
               => {ij[1], ij[2]} \subseteq completed_document[k].substituted

\* the text of the unit of the composed document at a location
TextAt(location_type, location) ==
    completed_document[CHOOSE k \in 1..Len(completed_document) :
                           /\ completed_document[k].location_type = location_type
                           /\ completed_document[k].location = location].text

\* the composed document as a file: the uploaded file with the text of every
\* paragraph and table cell as composed
ComposedFile ==
    [paragraphs |-> [i \in 1..Len(document.paragraphs) |->
                        [text |-> TextAt("paragraph", IntToStr(i - 1)), style |-> document.paragraphs[i].style]],
     tables |-> [t \in 1..Len(document.tables) |->
                   [r \in 1..Len(document.tables[t]) |->
                      [c \in 1..Len(document.tables[t][r]) |->
                         TextAt("table", IntToStr(t - 1) \o "-" \o IntToStr(r - 1) \o "-" \o IntToStr(c - 1))]]]]

\* C17: when a document has been composed with every placeholder filled,
\* detection run again on the composed text finds no placeholder.
C17_RoundTripConsumesEveryBlank ==
    (status = "completed" /\ Unfilled(filled_values) = {}) =>
        detect_placeholders(parse_document(ComposedFile)) = << >>

(***************************************************************************)
(* Properties of validation                                                *)
(***************************************************************************)
\* the name mentions "month" together with a duration word
MonthDuration(name) ==
    /\ Contains(lower(name), "month")
    /\ \E word \in {"term", "number", "count", "duration", "period"} : Contains(lower(name), word)

\* a compound phrase that the classifier tests before the month fields
EarlierPhrase(name) ==
    \E phrase \in {"address", "state of incorporation", "governing law", "valuation cap", "discount rate",
                    "purchase amount", "date of safe", "safe date", "investor name", "company name"} :
        Contains(lower(name), phrase)

\* the validator tests the email rule first for these fields
EmailField(ph) == ph.type = "contact" \/ Contains(lower(ph.name), "email")

BadFormat == Invalid("Please provide the date in MM/DD/YYYY format.")

\* C18 as stated: every field whose name mentions "month" with a duration
\* word is typed number, "12" is accepted and stored as "12" for every such
\* field and every field of type number, and "12" is rejected as a malformed
\* date for the field Effective Date.
C18_NumberBeforeDate_EveryName ==
    \A i \in Indices(placeholders) :
        /\ MonthDuration(At(placeholders, i).name) => At(placeholders, i).type = "number"
        /\ (MonthDuration(At(placeholders, i).name) \/ At(placeholders, i).type = "number")
              => _validate_placeholder_value("12", At(placeholders, i)) = Valid("12")
        /\ At(placeholders, i).name = "Effective Date"
              => _validate_placeholder_value("12", At(placeholders, i)) = BadFormat

\* C18 (amended): a field whose name mentions "month" with a duration word
\* and none of the compound phrases tested earlier is typed number; for every
\* field with such a name or of type number that is not an email field, "12"
\* is accepted and stored as "12", and a chat answer "12" is stored so; "12"
\* for the field Effective Date is rejected as a malformed date.
C18_NumberBeforeDate ==
    \A i \in Indices(placeholders) :
        /\ (MonthDuration(At(placeholders, i).name) /\ ~EarlierPhrase(At(placeholders, i).name))
              => At(placeholders, i).type = "number"
        /\ ((MonthDuration(At(placeholders, i).name) \/ At(placeholders, i).type = "number")
             /\ ~EmailField(At(placeholders, i)))
              => /\ _validate_placeholder_value("12", At(placeholders, i)) = Valid("12")
                 /\ \A d \in ValidateAnswers :
                       _validate_placeholder_value(d, At(placeholders, i)) # BadFormat
        /\ At(placeholders, i).name = "Effective Date"
              => _validate_placeholder_value("12", At(placeholders, i)) = BadFormat

\* "12" was answered for a month field and stored as "12"
C18_Witness ==
    /\ resp.op = "chat" /\ resp.placeholder_filled /\ resp.value = "12"
    /\ \E i \in Indices(placeholders) :
          /\ MonthDuration(At(placeholders, i).name)
          /\ At(placeholders, i).id = resp.placeholder_key
          /\ ValueOf(At(placeholders, i), filled_values) = "12"

\* the answer has the shape dd/dd/dddd
DateShape(d) ==
    /\ Len(d) = 10
    /\ Char(d, 3) = "/" /\ Char(d, 6) = "/"
    /\ AllChars(SubSeq(d, 1, 2) \o SubSeq(d, 4, 5) \o SubSeq(d, 7, 10), IsDigit)

BadMonth == Invalid("Invalid month. Please provide a date in MM/DD/YYYY format (month must be 01-12).")

BadDay == Invalid("Invalid day. Please provide a date in MM/DD/YYYY format (day must be 01-31).")

\* C19: for a date field an answer is accepted, unchanged, exactly when it
\* is MM/DD/YYYY with month in 01..12 and day in 01..31; an answer of that
\* shape with an out-of-range month gets the bad-month message, one with an
\* out-of-range day the bad-day message, every other answer the bad-format
\* message.
C19_DateValidation ==
    \A i \in Indices(placeholders) : \A d \in ValidateAnswers :
        At(placeholders, i).type = "date"
        => _validate_placeholder_value(d, At(placeholders, i))
             = IF ~DateShape(d) THEN BadFormat
               ELSE IF StrToNat(SubSeq(d, 1, 2)) \notin 1..12 THEN BadMonth
               ELSE IF StrToNat(SubSeq(d, 4, 5)) \notin 1..31 THEN BadDay
               ELSE Valid(d)

\* the decimal numeral of x, without a fraction when x is whole
NumStr(x) == Sign(x) \o x.whole \o (IF x.frac = "" THEN "" ELSE "." \o x.frac)

\* C20: for a percentage field a numeric answer in (1,100] is stored as that
\* number followed by "%", an answer of at most 1 as the number times 100
\* followed by "%"; "20" and "0.2" are both stored as "20%".
C20_PercentageCanonicalForm ==
    \A i \in Indices(placeholders) :
        At(placeholders, i).type = "percentage"
        => /\ _validate_placeholder_value("20", At(placeholders, i)) = Valid("20%")
           /\ _validate_placeholder_value("0.2", At(placeholders, i)) = Valid("20%")
           /\ \A d \in ValidateAnswers :
                 \E x \in {ParseFloat(strip(RemoveChars(d, {"%"})))} :
                     (x.ok /\ ~x.neg /\ Len(x.whole) <= 2)
                     => _validate_placeholder_value(d, At(placeholders, i))
                          = Valid(NumStr(IF AtMost1(x) THEN Times100(x) ELSE x) \o "%")

\* the name mentions phone or telephone
PhoneField(ph) == Contains(lower(ph.name), "phone") \/ Contains(lower(ph.name), "telephone")

\* the answer without spaces, dashes, parentheses and '+'
PhoneDigits(d) == RemoveChars(d, {" ", "-", "(", ")", "+"})

\* digits only, apart from the optional formatting characters
PhoneAnswer(d) == PhoneDigits(d) # "" /\ AllChars(PhoneDigits(d), IsDigit)

\* C21: for every placeholder detected for a phone field, with the type the
\* classifier gave it, an answer of 10 to 15 digits is accepted, one of 10
\* digits is stored as (XXX) XXX-XXXX, and an answer of fewer than 10 or more
\* than 15 digits is rejected.
C21_PhoneValidation ==
    \A i \in Indices(placeholders) : \A d \in ValidateAnswers :
        (PhoneField(At(placeholders, i)) /\ PhoneAnswer(d))
        => \E result \in {_validate_placeholder_value(d, At(placeholders, i))} :
               /\ result.valid <=> Len(PhoneDigits(d)) \in 10..15
               /\ Len(PhoneDigits(d)) = 10
                    => result.processed_value
                         = "(" \o SubSeq(PhoneDigits(d), 1, 3) \o ") " \o SubSeq(PhoneDigits(d), 4, 6)
                           \o "-" \o SubSeq(PhoneDigits(d), 7, 10)

\* the types of the specification's data model
TypeDomain == {"company", "person", "date", "amount", "percentage", "address", "contact", "number", "text"}

\* C22: the type of every placeholder of the index, as assigned by the
\* classifier to its name, is one of company, person, date, amount,
\* percentage, address, contact, number, text.
C22_TypeDomain ==
    \A i \in Indices(placeholders) :
        /\ At(placeholders, i).type = _identify_placeholder_type(At(placeholders, i).name)
        /\ At(placeholders, i).type \in TypeDomain

(***************************************************************************)
(* Properties of name inference and ordering                               *)
(***************************************************************************)
\* an unlabeled dollar blank
BlankDollar(p) == startswith(p.original, "$[") /\ AllChars(SubSeq(p.original, 3, Len(p.original) - 1), LAMBDA c : c = "_")

ValuationCapContext(p) == Contains(lower(p.context), "valuation cap") \/ Contains(lower(p.context), "post money")

PurchaseAmountContext(p) ==
    \E word \in {"purchase amount", "payment by", "exchange for"} : Contains(lower(p.context), word)

\* C23: a blank dollar placeholder whose context has valuation-cap and
\* purchase-amount keywords is named Post-Money Valuation Cap and has the
\* valuation-cap signature of its location; every inferred name is non-empty.
C23_ValuationCapPrecedence ==
    \A i \in Indices(placeholders) :
        /\ At(placeholders, i).name # ""
        /\ (BlankDollar(At(placeholders, i)) /\ ValuationCapContext(At(placeholders, i))
             /\ PurchaseAmountContext(At(placeholders, i)))
            => /\ At(placeholders, i).name = "Post-Money Valuation Cap"
               /\ _infer_placeholder_name(At(placeholders, i).original, At(placeholders, i).context)
                    = "Post-Money Valuation Cap"
               /\ signature(At(placeholders, i))
                    = "valuation_cap_" \o At(placeholders, i).location_type \o "_"
                      \o LocStr(At(placeholders, i).location_type, At(placeholders, i).location)

\* the numbers of a table location "t-r-c"
Triple(location) ==
    Let({i \in 1..Len(location) : Char(location, i) = "-"}, LAMBDA dashes :
        << StrToNat(SubSeq(location, 1, Min(dashes) - 1)),
           StrToNat(SubSeq(location, Min(dashes) + 1, Max(dashes) - 1)),
           StrToNat(SubSeq(location, Max(dashes) + 1, Len(location))) >>)

\* lexicographic order of sequences of numbers of equal length
RECURSIVE NumbersLess(_, _)
NumbersLess(a, b) ==
    IF a = << >> THEN FALSE
    ELSE Head(a) < Head(b) \/ (Head(a) = Head(b) /\ NumbersLess(Tail(a), Tail(b)))

\* document order of two entries of the same kind of location
DocumentOrder(x, y) ==
    IF x.location_type = "paragraph"
    THEN NumbersLess(<< x.location, x.position[1] >>, << y.location, y.position[1] >>)
    ELSE NumbersLess(Triple(x.location) \o << x.position[1] >>, Triple(y.location) \o << y.position[1] >>)

\* C24: the index is in document order - of two entries in paragraphs, or two
\* in table cells, with different locations or starts, the earlier in the
\* list has the smaller (location, start), table locations compared as
\* triples of numbers - and the entry at list position k has sequence k + 1.
C24_OrderOfAppearance ==
    /\ \A k \in Indices(placeholders) : At(placeholders, k).sequence = k + 1
    /\ \A i, j \in Indices(placeholders) :
          (/\ i < j
           /\ At(placeholders, i).location_type = At(placeholders, j).location_type
           /\ << At(placeholders, i).location, At(placeholders, i).position[1] >>
                # << At(placeholders, j).location, At(placeholders, j).position[1] >>)
          => DocumentOrder(At(placeholders, i), At(placeholders, j))

(***************************************************************************)
(* Properties of the chat turn                                             *)
(***************************************************************************)
\* what a chat turn records: the flag, the field, the value, the auto-fills, the next index
ControlOf(response) ==
    << response.placeholder_filled, response.placeholder_key, response.value, response.auto_fills,
       response.next_index >>

\* the turn on the state of the session for an answer, under a provider
Turn(provider, message) ==
    process_message_with(provider, strip(message), placeholders, filled_values, current_placeholder_index)

\* C25: for the same placeholders, filled values, current index and answer,
\* process_message records the same flag, field, value, auto-fills and next
\* index whether the provider is available, unavailable or failing; and
\* without a provider it is process_message with the built-in replies.
C25_DegradedModeSameControl ==
    status # "none"
    => \A message \in Messages :
          \E degraded \in {ControlOf(Turn(NoProvider, message))} :
              /\ \A provider \in Providers : ControlOf(Turn(provider, message)) = degraded
              /\ degraded = ControlOf(process_message(strip(message), placeholders, filled_values,
                                                      current_placeholder_index))

\* a chat turn has taken place, and for the next answer the reply of an
\* available provider differs from the reply when its call fails
C25_Witness ==
    /\ resp.op = "chat" /\ resp.code = 200
    /\ \E message \in Messages : \E p1, p2 \in Providers :
          /\ p1.groq /\ ~p1.raises /\ p2.groq /\ p2.raises
          /\ Turn(p1, message).placeholder_filled
          /\ Turn(p1, message).message # Turn(p2, message).message

(***************************************************************************)
(* Properties of deduplication                                             *)
(***************************************************************************)
\* the candidate is an entry of the index
Retained(c) == \E k \in 1..Len(placeholders) : placeholders[k].id = c.id

\* the starts of two candidates are closer than the proximity threshold
Near(c, d) ==
    (IF c.position[1] >= d.position[1] THEN c.position[1] - d.position[1] ELSE d.position[1] - c.position[1])
        < ProximityThreshold

\* C26: of the candidates of one signature group (those with a name that the
\* final filter accepts) the one with the lowest
\* start is retained; a candidate is dropped exactly when its start is closer
\* than the threshold of 10 characters to the start of a retained candidate
\* of its group that precedes it; two candidates that make up a group and
\* whose starts are at least the threshold apart are both retained.
C26_ProximityRule ==
    status # "none"
    => \E candidates \in {Range(_filter_placeholders(all_placeholders(content)))} :
       \A c \in candidates :
       \E group \in {{d \in candidates : signature(d) = signature(c)}} :
           /\ (\A d \in group \ {c} : c.position[1] < d.position[1]) => Retained(c)
           /\ ~Retained(c) <=> \E d \in group \ {c} :
                                   Retained(d) /\ Near(c, d) /\ d.position[1] <= c.position[1]
           /\ \A d \in group : (group = {c, d} /\ ~Near(c, d)) => (Retained(c) /\ Retained(d))

\* a group of three candidates of which the one in the middle is dropped and
\* the last, near the dropped one only, is retained
C26_Witness ==
    /\ status = "active"
    /\ \E candidates \in {Range(all_placeholders(content))} :
       \E c, d, e \in candidates :
           /\ signature(c) = signature(d) /\ signature(d) = signature(e)
           /\ c.position[1] < d.position[1] /\ d.position[1] < e.position[1]
           /\ Retained(c) /\ ~Retained(d) /\ Retained(e)
           /\ Near(d, e)

\* the reply of process_message when it finds no field to ask
AllFilledMessage ==
    "Great! All fields have been filled. You can now preview your document and download the completed version."

\* C27: in every state of an active session with an unfilled placeholder, no
\* chat answer is met with the reply that all fields have been filled, and an
\* answer that is valid for the lowest unfilled placeholder at or after the
\* current index fills a placeholder.
C27_ChatProgress ==
    (status = "active" /\ Unfilled(filled_values) # {})
    => \A message \in Messages :
          \E response \in {Turn(NoProvider, message)} :
              /\ response.message # AllFilledMessage
              /\ \A i \in Unfilled(filled_values) :
                    (/\ i = actual_index(placeholders, filled_values, current_placeholder_index)
                     /\ _validate_placeholder_value(strip(message), At(placeholders, i)).valid)
                    => response.placeholder_filled

(***************************************************************************)
(* Properties of the rule chosen by the validator                          *)
(***************************************************************************)
\* the types for which the validator has no rule of its own
PlainTypes == {"company", "person", "text"}

\* C30: for every placeholder of the index whose type is company, person or
\* text, whatever its name, every non-empty answer is accepted and stored with
\* its whitespace normalized.
C30_RuleFollowsType ==
    \A i \in Indices(placeholders) : \A d \in ValidateAnswers :
        (At(placeholders, i).type \in PlainTypes /\ strip(d) # "")
        => _validate_placeholder_value(strip(d), At(placeholders, i)) = Valid(normalize_whitespace(strip(d)))

(***************************************************************************)
(* Properties of the session store under overlapping requests              *)
(***************************************************************************)
\* C28: when one preview request and one chat request are the only requests
\* received on a session and both have finished, however their steps
\* interleaved, the value the chat request accepted is in the stored
\* filled_values under the id it was accepted for.
C28_ReadsDoNotClobberWrites ==
    \A r, w \in DOMAIN inflight :
        (/\ Len(inflight) = 2
         /\ inflight[r].op = "preview" /\ inflight[r].pc = "done"
         /\ inflight[w].op = "chat" /\ inflight[w].pc = "done"
         /\ inflight[w].reply.placeholder_filled)
        => /\ status # "none"
           /\ inflight[w].reply.placeholder_key \in DOMAIN filled_values
           /\ filled_values[inflight[w].reply.placeholder_key] = inflight[w].reply.value

\* C29: once a reset request has deleted the key of the session, the key is
\* absent in every later state, whatever the other requests do: get_session
\* returns nothing for the session id from then on.
C29_ResetIsDurable ==
    (\E d \in DOMAIN inflight : /\ inflight[d].op = "reset" /\ inflight[d].pc = "done"
                                /\ inflight[d].session_data.status # "none")
    => status = "none"

====
